---- MODULE Spec2Model ----
(***************************************************************************)
(* Model of the two deployment notifier scripts                            *)
(*   scripts/local_deployment_notifier.py        (script = "local")        *)
(*   scripts/local-forge-deployment-notifier.py  (script = "forge")        *)
(* One run of main() is one behaviour.  Every call to the outside world    *)
(* (clock, git, forge CLI, HTTP) is a nondeterministic choice over the     *)
(* outcomes the call can have.                                             *)
(*                                                                         *)
(* and of the two file-sync scripts                                        *)
(*   copy-files-to-siblings.py       (sync_script = "to-siblings")         *)
(*   copy-files-between-siblings.py  (sync_script = "between-siblings")    *)
(* One run of a script over one parent directory is one behaviour; the     *)
(* prompts and the file operations are nondeterministic choices.           *)
(***************************************************************************)
EXTENDS Integers, Sequences, FiniteSets, TLC

\* ---------------------------------------------------------------- bounds
\* Largest number of installations `forge install list` reports.
MaxInst == 3
\* Largest number of installations reported in the runs that record payloads.
MaxPayloadInst == 2
\* Clock readings (milliseconds) range over 0..MaxClock.
MaxClock == 1
\* Longest environment argument made of arbitrary characters.
MaxInputLen == 2
\* Number of entries of FILES_TO_COPY the file-sync runs work through.
MaxItems == 2
\* Largest number of entries beside the current directory in its parent.
MaxSiblings == 2

\* ------------------------------------------------------------- variables
VARIABLES
    \* the environment of the run, fixed when the process starts
    script,            \* which of the two scripts runs
    site_limit,        \* how many installations the forge CLI can report
    clock_top,         \* clock readings range over 0..clock_top
    watched,           \* installation whose posted payloads are recorded (0: none)
    ATLASSIAN_USER_EMAIL,    \* TRUE iff the variable is set and non-empty
    ATLASSIAN_USER_API_KEY,  \* TRUE iff the variable is set and non-empty
    environment,       \* the positional argument, a sequence of characters
    \* control
    pc,
    exit_code,         \* -1 while running
    \* fields of LocalDeploymentNotifier
    environment_type,  \* <<>> until the constructor has run
    dry_run,
    deployment_run_id,
    deployment_start_time,
    base_sequence_number,
    component_slug,
    github_repo,
    installations,
    deployed_version,
    \* locals of deploy()
    in_progress_sent,
    deployment_succeeded,
    post_deployment_phase,
    error_message,
    \* initialize_installations(): its local `installations`, the list that
    \* get_all_installations returned (kept after the return as a record of
    \* what discovery found)
    found,
    \* locals of send_deployment_event() and the two senders
    event_state,
    description,
    git_info,
    payload,
    idx,
    successful_installations,
    failures,
    needs_setup,
    \* history of the run (what the outside world saw)
    log,               \* per installation: the delivery attempts, in order
    watched_payloads,  \* payloads POSTed to the watched installation, in order
    deploy_invoked,    \* `forge deploy` was started
    verify_queries,    \* number of component lookups issued
    lookups,           \* the tenant_info and component lookups and how they ended
    event_source_missing,  \* installations whose first IN_PROGRESS answer was
                           \* 404 CREATE_EVENT_SOURCE_NOT_FOUND
    migration,         \* what run_sql_migrate met: the installations' forge
                       \* environments and the answer of the web trigger
    successful_begun,  \* send_deployment_event('SUCCESSFUL') was called
    \* the file-sync tool: its environment
    sync_script,       \* which of the two copy scripts runs ("idle": neither)
    tree,              \* the parent directory: entry name -> what is there
    \* the file-sync tool: control and locals
    sync_pc,
    sync_exit,         \* exit status, -1 while running
    direction,
    existing_files,
    directories,
    selected_directories,
    selected_dir_name,
    dir_idx,           \* position of the outer loop in selected_directories
    item_idx,          \* position of the inner loop in the list of items
    copied_count,
    \* the file-sync tool: history of the run
    tree0,             \* the parent directory as the run found it
    trail,             \* the steps of the run so far, in order
    attempts,          \* the copy operations made, in order
    reported           \* the count printed by the last line, -1 before it

envVars  == <<script, site_limit, clock_top, watched,
              ATLASSIAN_USER_EMAIL, ATLASSIAN_USER_API_KEY, environment>>
selfVars == <<environment_type, dry_run, deployment_run_id,
              deployment_start_time,
              base_sequence_number, component_slug, github_repo,
              installations, deployed_version>>
deployVars == <<in_progress_sent, deployment_succeeded,
                post_deployment_phase, error_message>>
sendVars == <<event_state, description, git_info, payload, idx,
              successful_installations, failures, needs_setup>>
histVars == <<log, watched_payloads, deploy_invoked, verify_queries,
              lookups, event_source_missing, migration, successful_begun>>
syncVars == <<sync_script, tree, sync_pc, sync_exit, direction,
              existing_files, directories, selected_directories,
              selected_dir_name, dir_idx, item_idx, copied_count,
              tree0, trail, attempts, reported>>
notifierVars == <<envVars, pc, exit_code, selfVars, deployVars, found,
                  sendVars, histVars>>
vars == <<notifierVars, syncVars>>

\* ------------------------------------------------------------- constants
Scripts == {"local", "forge"}
States  == {"IN_PROGRESS", "SUCCESSFUL", "FAILED"}
None    == "None"

\* Strings whose characters matter (the environment argument and the
\* environment types) are sequences of one-character strings.
PRODUCTION  == <<"P", "R", "O", "D", "U", "C", "T", "I", "O", "N">>
STAGING     == <<"S", "T", "A", "G", "I", "N", "G">>
TESTING     == <<"T", "E", "S", "T", "I", "N", "G">>
DEVELOPMENT == <<"D", "E", "V", "E", "L", "O", "P", "M", "E", "N", "T">>
UNMAPPED    == <<"U", "N", "M", "A", "P", "P", "E", "D">>

VALID_ENVIRONMENT_TYPES ==
    {PRODUCTION, STAGING, TESTING, DEVELOPMENT, UNMAPPED}

\* str.upper() on ASCII text: the lower-case letters and their upper-case
\* forms; every other character is left as it is.
Lowercase == <<"a", "b", "c", "d", "e", "f", "g", "h", "i", "j", "k", "l", "m",
               "n", "o", "p", "q", "r", "s", "t", "u", "v", "w", "x", "y", "z">>
Uppercase == <<"A", "B", "C", "D", "E", "F", "G", "H", "I", "J", "K", "L", "M",
               "N", "O", "P", "Q", "R", "S", "T", "U", "V", "W", "X", "Y", "Z">>

UpperChar(c) ==
    IF \E k \in 1..Len(Lowercase) : Lowercase[k] = c
    THEN Uppercase[CHOOSE k \in 1..Len(Lowercase) : Lowercase[k] = c]
    ELSE c

Upper(s) == [k \in 1..Len(s) |-> UpperChar(s[k])]

\* A variant that compares the input as given, without upper-casing it.
ValidateAndMapEnvironmentCaseSensitive(user_input) ==
    IF user_input \in VALID_ENVIRONMENT_TYPES THEN user_input ELSE UNMAPPED

\* validate_and_map_environment(user_input)
ValidateAndMapEnvironment(user_input) ==
    LET normalized_input == Upper(user_input)
    IN  IF normalized_input \in VALID_ENVIRONMENT_TYPES
        THEN normalized_input
        ELSE UNMAPPED

\* A clock reading: datetime.now() at any moment of the run.
Clock == 0..clock_top

\* No payload is held / no git information yet.
NoPayload  == [cloudId |-> 0]
NoGitInfo  == [hash |-> None]

\* The web trigger was not called / run_sql_migrate has not got that far.
NoResponse  == [kind |-> "none", success |-> FALSE, status |-> "", pending |-> 0]
NoMigration == [envs |-> {}, response |-> NoResponse]

\* ------------------------------------------------------------------ Init
\* The process starts: nothing has run yet.
InitCommon ==
    /\ script \in Scripts
    /\ ATLASSIAN_USER_EMAIL \in BOOLEAN
    /\ ATLASSIAN_USER_API_KEY \in BOOLEAN
    /\ dry_run \in BOOLEAN
    /\ pc = "main"
    /\ exit_code = -1
    /\ environment_type = <<>>
    /\ deployment_run_id = -1
    /\ deployment_start_time = -1
    /\ base_sequence_number = -1
    /\ component_slug = ""
    /\ github_repo = None
    /\ installations = <<>>
    /\ deployed_version = None
    /\ in_progress_sent = FALSE
    /\ deployment_succeeded = FALSE
    /\ post_deployment_phase = FALSE
    /\ error_message = None
    /\ found = <<>>
    /\ event_state = None
    /\ description = None
    /\ git_info = NoGitInfo
    /\ payload = NoPayload
    /\ idx = 0
    /\ successful_installations = <<>>
    /\ failures = <<>>
    /\ needs_setup = <<>>
    /\ log = [i \in 1..site_limit |-> <<>>]
    /\ watched_payloads = <<>>
    /\ deploy_invoked = FALSE
    /\ verify_queries = 0
    /\ lookups = {}
    /\ event_source_missing = {}
    /\ migration = NoMigration
    /\ successful_begun = FALSE

\* The file-sync tool is not running.
SyncIdle ==
    /\ sync_script = "idle"
    /\ tree = <<>>
    /\ sync_pc = "exit"
    /\ sync_exit = -1
    /\ direction = ""
    /\ existing_files = <<>>
    /\ directories = <<>>
    /\ selected_directories = <<>>
    /\ selected_dir_name = ""
    /\ dir_idx = 0
    /\ item_idx = 0
    /\ copied_count = 0
    /\ tree0 = <<>>
    /\ trail = <<>>
    /\ attempts = <<>>
    /\ reported = -1

\* Runs over up to MaxInst installations with a clock too coarse to tell two
\* readings of the run apart; no payload history is kept.
Init ==
    /\ site_limit = MaxInst
    /\ clock_top = 0
    /\ watched = 0
    /\ environment = <<"s", "t", "a", "g", "i", "n", "g">>
    /\ InitCommon
    /\ SyncIdle

\* Runs over up to MaxPayloadInst installations with a clock that may return
\* any value at any reading; the payloads sent to one installation are kept.
InitPayload ==
    /\ site_limit = MaxPayloadInst
    /\ clock_top = MaxClock
    /\ watched \in 1..MaxPayloadInst
    /\ environment = <<"s", "t", "a", "g", "i", "n", "g">>
    /\ InitCommon
    /\ SyncIdle

\* str.lower() on ASCII text, character by character.
LowerChar(c) ==
    IF \E k \in 1..Len(Uppercase) : Uppercase[k] = c
    THEN Lowercase[CHOOSE k \in 1..Len(Uppercase) : Uppercase[k] = c]
    ELSE c

\* The environment arguments of the runs that exercise the mapping of the
\* environment: every mix of upper and lower case of the five type names,
\* the names in upper and in lower case with one character added, dropped
\* or replaced, and every string of up to MaxInputLen characters of
\* InputAlphabet.
InputAlphabet == {"a", "A", "g", "G", " ", "-", "1"}

CaseVariants(name) ==
    { [k \in 1..Len(name) |-> IF k \in S THEN LowerChar(name[k]) ELSE name[k]] :
        S \in SUBSET (1..Len(name)) }

NearMisses(v) ==
    {SubSeq(v, 1, Len(v) - 1), SubSeq(v, 2, Len(v))}
    \cup { Append(v, c) : c \in InputAlphabet }
    \cup { <<c>> \o v : c \in InputAlphabet }
    \cup { [v EXCEPT ![k] = c] : k \in 1..Len(v), c \in InputAlphabet }

EnvironmentInputs ==
    UNION { CaseVariants(name) : name \in VALID_ENVIRONMENT_TYPES }
    \cup UNION { NearMisses(name) \cup
                 NearMisses([k \in 1..Len(name) |-> LowerChar(name[k])]) :
                 name \in VALID_ENVIRONMENT_TYPES }
    \cup UNION { [1..n -> InputAlphabet] : n \in 0..MaxInputLen }

\* Runs that differ in the environment argument.
InitEnvironment ==
    /\ site_limit = MaxInst
    /\ clock_top = 0
    /\ watched = 0
    /\ environment \in EnvironmentInputs
    /\ InitCommon
    /\ SyncIdle

\* ------------------------------------------------- pure parts of the code

\* The constructor reads the clock three times ("local") or twice ("forge",
\* which has no base_sequence_number).
BaseReadings == IF script = "local" THEN Clock ELSE {-1}

\* Error messages that deploy() takes for a migration failure: they contain
\* "SQL migrations" and one of "failed", "incomplete", "did not complete".
MigrationMessages ==
    {"SQL migrations failed",
     "SQL migrations did not complete successfully",
     "SQL migrations incomplete"}

IsMigrationFailure(msg) == msg \in MigrationMessages

\* A variant that never sends FAILED notifications.
ShouldSendFailedNever(sent, succeeded, post_phase, msg) == FALSE

\* A variant that sends FAILED notifications after every exception.
ShouldSendFailedAlways(sent, succeeded, post_phase, msg) == TRUE

\* deploy(): whether the except block sends FAILED notifications.
ShouldSendFailed(sent, succeeded, post_phase, msg) ==
    IF script = "local"
    THEN sent /\ (\/ ~succeeded
                  \/ IsMigrationFailure(msg)
                  \/ (post_phase /\ succeeded))
    ELSE sent /\ ~succeeded

\* A variant that never adds the version line.
CreateDeploymentDescriptionPlain(state) == None

\* create_deployment_description(): the version line is added for SUCCESSFUL
\* events of the "local" script when a version was extracted.
CreateDeploymentDescription(state) ==
    IF script = "local" /\ state = "SUCCESSFUL" THEN deployed_version ELSE None

\* create_deployment_url(): full_ok is the outcome of `git rev-parse HEAD`.
UsesGithubUrl(gi) == github_repo # None /\ gi.hash # "unknown"

CreateDeploymentUrl(gi, full_ok) ==
    IF UsesGithubUrl(gi)
    THEN [site |-> "github.com", repo |-> github_repo,
          ref |-> IF full_ok THEN "full_hash" ELSE gi.hash]
    ELSE [site |-> "localhost", repo |-> component_slug,
          ref |-> ToString(deployment_run_id)]

\* A variant without the "at least 1ms higher than base" correction.
SequenceNumberUnclamped(state, ms) ==
    IF script = "local"
    THEN IF state = "IN_PROGRESS" THEN base_sequence_number ELSE ms
    ELSE ms

\* A variant that gives every payload of the "local" script the base number.
SequenceNumberReused(state, ms) ==
    IF script = "local" THEN base_sequence_number ELSE ms

\* create_event_payload(): the sequence number; ms is the clock reading taken
\* for it (not taken for IN_PROGRESS in the "local" script).
SequenceNumber(state, ms) ==
    IF script = "local"
    THEN IF state = "IN_PROGRESS"
         THEN base_sequence_number
         ELSE IF ms <= base_sequence_number
              THEN base_sequence_number + 1
              ELSE ms
    ELSE ms

\* A variant that stamps a completed event's startedAt with the current
\* time.
DeploymentPropertiesRestamped(state, seq, url, now) ==
    LET common == [sequenceNumber |-> seq,
                   state |-> state,
                   pipeline |-> [pipelineId |-> deployment_run_id,
                                 url |-> url],
                   startedAt |-> deployment_start_time]
    IN  IF state = "IN_PROGRESS"
        THEN common
        ELSE [sequenceNumber |-> common.sequenceNumber,
              state |-> common.state,
              pipeline |-> common.pipeline,
              completedAt |-> now,
              startedAt |-> now]

\* A variant that sets completedAt in every state.
DeploymentPropertiesAlwaysCompleted(state, seq, url, now) ==
    [sequenceNumber |-> seq,
     state |-> state,
     pipeline |-> [pipelineId |-> deployment_run_id, url |-> url],
     completedAt |-> now,
     startedAt |-> deployment_start_time]

\* create_event_payload(): deploymentProperties; now is the clock reading
\* taken at the top of the function.
DeploymentProperties(state, seq, url, now) ==
    LET common == [sequenceNumber |-> seq,
                   state |-> state,
                   pipeline |-> [pipelineId |-> deployment_run_id,
                                 url |-> url],
                   startedAt |-> deployment_start_time]
    IN  IF state = "IN_PROGRESS"
        THEN common
        ELSE [sequenceNumber |-> common.sequenceNumber,
              state |-> common.state,
              pipeline |-> common.pipeline,
              completedAt |-> now,
              startedAt |-> deployment_start_time]

ExternalEventSourceId ==
    IF script = "local" THEN "forge_cli" ELSE component_slug

CreateEventPayload(inst, state, desc, gi, now, ms, full_ok) ==
    LET seq == SequenceNumber(state, ms)
        url == CreateDeploymentUrl(gi, full_ok)
        deployment == [updateSequenceNumber |-> seq,
                       description |-> desc,
                       url |-> url,
                       externalEventSourceId |-> ExternalEventSourceId,
                       deploymentProperties |->
                           DeploymentProperties(state, seq, url, now)]
    IN  IF script = "local"
        THEN [cloudId |-> inst, componentId |-> inst,
              event |-> [deployment |-> deployment]]
        ELSE [cloudId |-> inst, event |-> [deployment |-> deployment]]

\* The clock readings and git outcome create_event_payload consumes.
NowReadings(state) == IF state = "IN_PROGRESS" THEN {0} ELSE Clock
MsReadings(state) ==
    IF script = "local" /\ state = "IN_PROGRESS" THEN {0} ELSE Clock
FullHashOutcomes(gi) == IF UsesGithubUrl(gi) THEN BOOLEAN ELSE {TRUE}

\* The contents of a payload are followed for the watched installation and
\* in a dry run (where every payload is printed); nothing in the code reads
\* the clock-dependent fields of a payload, so for the other installations
\* one payload stands for all.
Followed(inst) == inst = watched \/ dry_run

\* Every payload create_event_payload can build for inst now.
Payloads(inst, state, desc, gi) ==
    IF Followed(inst)
    THEN { CreateEventPayload(inst, state, desc, gi, now, ms, full_ok) :
             now \in NowReadings(state), ms \in MsReadings(state),
             full_ok \in FullHashOutcomes(gi) }
    ELSE { CreateEventPayload(inst, state, desc, gi, 0, 0, TRUE) }

\* validate_event_payload() of the "local" script: the fields required of a
\* payload in the given state are all present.
ValidateEventPayload(p, state) ==
    LET d  == p.event.deployment
        dp == d.deploymentProperties
    IN  /\ "componentId" \in DOMAIN p
        /\ (state \in {"SUCCESSFUL", "FAILED"} => "completedAt" \in DOMAIN dp)
        /\ "startedAt" \in DOMAIN dp
        /\ dp.state \in {"IN_PROGRESS", "SUCCESSFUL", "FAILED", "CANCELLED"}
        /\ dp.pipeline.pipelineId = deployment_run_id

\* ------------------------------------------------------ HTTP and history
\* What a POST to the events endpoint can come back with: a status and the
\* kind of body, or an exception raised by the request.
Responses ==
    {[status |-> 200, body |-> "json"],
     [status |-> 202, body |-> "json"],
     [status |-> 404, body |-> "CREATE_EVENT_SOURCE_NOT_FOUND"],
     [status |-> 404, body |-> "json"],
     [status |-> 404, body |-> "not_json"],
     [status |-> 500, body |-> "json"],
     [status |-> -1,  body |-> "exception"]}

Acknowledged(r) == r.status \in {200, 202}

\* The responses as a final or compensating send tells them apart.
Deliveries == { Acknowledged(r) : r \in Responses }

\* One more remote call about installation inst.  The log of calls is kept
\* in the runs that follow no installation's payloads (watched = 0), the
\* payloads in the others.
Logged(inst, kind, ok) ==
    IF watched = 0
    THEN [log EXCEPT ![inst] = Append(@, [kind |-> kind, ok |-> ok])]
    ELSE log

Posted(inst, p) ==
    IF inst = watched THEN Append(watched_payloads, p) ELSE watched_payloads

\* More remote lookups made during discovery and verification; kept in the
\* runs that keep the log of calls.
Looked(entries) ==
    IF watched = 0 THEN lookups \cup entries ELSE lookups

\* The ascending list of the members of a set of installations.
RECURSIVE AsList(_)
AsList(S) ==
    IF S = {} THEN <<>>
    ELSE LET m == CHOOSE x \in S : \A y \in S : x <= y
         IN  <<m>> \o AsList(S \ {m})

\* --------------------------------------------- call and return in deploy()
ResetSendLocals ==
    /\ description' = None
    /\ git_info' = NoGitInfo
    /\ payload' = NoPayload
    /\ idx' = 0
    /\ successful_installations' = <<>>
    /\ failures' = <<>>
    /\ needs_setup' = <<>>

\* A variant that ends the process with status 0 whatever the code.
ExitAlwaysZero(code) ==
    /\ pc' = "exit"
    /\ exit_code' = 0

\* sys.exit(code), or main() returning (code 0).
Exit(code) ==
    /\ pc' = "exit"
    /\ exit_code' = code

\* deploy() calls send_deployment_event(state).
CallSend(state) ==
    /\ pc' = "send_deployment_event"
    /\ event_state' = state
    /\ successful_begun' = (successful_begun \/ state = "SUCCESSFUL")

\* An exception is raised inside the try block of deploy().
Raise(msg) ==
    /\ pc' = "except"
    /\ error_message' = msg
    /\ UNCHANGED exit_code

\* send_deployment_event(event_state) returns to deploy(): after IN_PROGRESS
\* the run goes on to the deployment, after SUCCESSFUL deploy() returns and
\* the process ends with status 0, after FAILED the handler calls sys.exit(1).
SendReturn ==
    /\ ResetSendLocals
    /\ UNCHANGED error_message
    /\ CASE event_state = "IN_PROGRESS" ->
              /\ in_progress_sent' = TRUE
              /\ pc' = "run_forge_deploy"
              /\ UNCHANGED exit_code
         [] event_state = "SUCCESSFUL" ->
              /\ Exit(0)
              /\ UNCHANGED in_progress_sent
         [] event_state = "FAILED" ->
              /\ Exit(1)
              /\ UNCHANGED in_progress_sent

\* send_deployment_event(event_state) raises: in the try block the handler
\* of deploy() runs; in the handler the error is printed and sys.exit(1)
\* follows.
SendRaise(msg) ==
    /\ ResetSendLocals
    /\ UNCHANGED in_progress_sent
    /\ IF event_state = "FAILED"
       THEN Exit(1) /\ UNCHANGED error_message
       ELSE Raise(msg)

\* ----------------------------------------------------------------- main()
\* A variant of main() without the credential check.
MainUnchecked ==
    /\ pc = "main"
    /\ environment_type' = ValidateAndMapEnvironment(environment)
    /\ \E r1 \in Clock, r2 \in Clock, r3 \in BaseReadings :
         /\ deployment_run_id' = r1
         /\ deployment_start_time' = r2
         /\ base_sequence_number' = r3
    /\ pc' = "load_catalog_info"
    /\ UNCHANGED exit_code
    /\ UNCHANGED <<syncVars, envVars, dry_run, component_slug, github_repo,
                   installations, deployed_version, deployVars, found,
                   sendVars, histVars>>

\* main(): the credential check, then the constructor.
Main ==
    /\ pc = "main"
    /\ IF ~ATLASSIAN_USER_EMAIL \/ ~ATLASSIAN_USER_API_KEY
       THEN /\ Exit(1)
            /\ UNCHANGED <<environment_type, deployment_run_id,
                           deployment_start_time, base_sequence_number>>
       ELSE /\ environment_type' = ValidateAndMapEnvironment(environment)
            /\ \E r1 \in Clock, r2 \in Clock, r3 \in BaseReadings :
                 /\ deployment_run_id' = r1
                 /\ deployment_start_time' = r2
                 /\ base_sequence_number' = r3
            /\ pc' = "load_catalog_info"
            /\ UNCHANGED exit_code
    /\ UNCHANGED <<syncVars, envVars, dry_run, component_slug, github_repo,
                   installations, deployed_version, deployVars, found,
                   sendVars, histVars>>

\* deploy(): load_catalog_info().
LoadCatalogInfo ==
    /\ pc = "load_catalog_info"
    /\ \/ /\ \E msg \in {"catalog-info.yaml not found",
                         "No component metadata found in catalog-info.yaml"} :
                Raise(msg)
          /\ UNCHANGED <<component_slug, github_repo>>
       \/ /\ component_slug' = "svc-a"
          /\ github_repo' \in {None, "org/repo"}
          /\ pc' = "get_all_installations"
          /\ UNCHANGED <<exit_code, error_message>>
    /\ UNCHANGED <<syncVars, envVars, dry_run, deployment_run_id, environment_type,
                   deployment_start_time,
                   base_sequence_number, installations, deployed_version,
                   in_progress_sent, deployment_succeeded,
                   post_deployment_phase, found, sendVars, histVars>>

\* get_all_installations(): what `forge install list --json` can do: fail,
\* print something that is not JSON, or print a list.
CliOutcomes == {"failed", "not_json", "listed"}

\* get_cloud_id(): what GET <site>/_edge/tenant_info can come back with.
CloudIdOutcomes ==
    {"cloud_id", "request_error", "invalid_json", "no_cloud_id"}

\* A variant that also accepts a tenant_info answer without a cloudId.
GetCloudIdLenient(site, outcome) ==
    IF outcome \in {"cloud_id", "no_cloud_id"} THEN site ELSE 0

\* get_cloud_id(site_url): the cloud id (the installation's number), or 0
\* for None.
GetCloudId(site, outcome) ==
    IF outcome = "cloud_id" THEN site ELSE 0

\* initialize_installations(): get_all_installations() and the early return.
\* The CLI fails or prints no JSON (empty list), or it lists installations
\* and those whose cloud id lookup succeeds are kept, in order; an entry of
\* the list without a 'site' key raises KeyError after the lookups for the
\* entries before it, and nothing below deploy() catches it.
GetAllInstallations ==
    /\ pc = "get_all_installations"
    /\ \E cli \in CliOutcomes, listed \in SUBSET (1..site_limit),
          key_error \in BOOLEAN :
        \E outcome \in [listed -> CloudIdOutcomes] :
          LET result == { i \in listed : GetCloudId(i, outcome[i]) # 0 }
          IN  /\ cli # "listed" => (listed = {} /\ ~key_error)
              /\ lookups' = Looked(
                    {[endpoint |-> "install_list", inst |-> 0,
                      ok |-> cli = "listed"]}
                    \cup {[endpoint |-> "tenant_info", inst |-> i,
                           ok |-> outcome[i] = "cloud_id"] : i \in listed})
              /\ IF key_error
                 THEN /\ Raise("KeyError: 'site'")
                      /\ UNCHANGED <<found, idx, installations, event_state,
                                     successful_begun>>
                 ELSE /\ found' = AsList(result)
                      /\ IF result = {}
                         THEN /\ CallSend("IN_PROGRESS")
                              /\ idx' = 0
                         ELSE /\ pc' = "search_component_by_slug"
                              /\ idx' = 1
                              /\ UNCHANGED <<event_state, successful_begun>>
                      /\ installations' = <<>>
                      /\ UNCHANGED <<exit_code, error_message>>
    /\ UNCHANGED <<syncVars, envVars, environment_type, dry_run, deployment_run_id,
                   deployment_start_time, base_sequence_number,
                   component_slug, github_repo, deployed_version,
                   in_progress_sent, deployment_succeeded,
                   post_deployment_phase, description, git_info, payload,
                   successful_installations, failures, needs_setup, log,
                   watched_payloads, deploy_invoked, verify_queries,
                   event_source_missing, migration>>

\* A variant that keeps every discovered installation, whatever its
\* component lookup returned.
SearchComponentBySlugKeepAll ==
    /\ pc = "search_component_by_slug"
    /\ idx <= Len(found)
    /\ verify_queries' = verify_queries + 1
    /\ \E component_id \in {"found", "not_found", "error"} :
         /\ installations' = Append(installations, found[idx])
         /\ lookups' = Looked({[endpoint |-> "graphql", inst |-> found[idx],
                                ok |-> component_id = "found"]})
    /\ idx' = idx + 1
    /\ UNCHANGED <<syncVars, envVars, pc, exit_code, environment_type, dry_run,
                   deployment_run_id, deployment_start_time,
                   base_sequence_number, component_slug, github_repo,
                   deployed_version, deployVars, found, event_state,
                   description, git_info, payload, successful_installations,
                   failures, needs_setup, log, watched_payloads,
                   deploy_invoked, event_source_missing, migration, successful_begun>>

\* initialize_installations(): one turn of the loop, one component lookup
\* (a GraphQL request); the installation is kept iff the lookup returned an
\* id.
SearchComponentBySlug ==
    /\ pc = "search_component_by_slug"
    /\ idx <= Len(found)
    /\ verify_queries' = verify_queries + 1
    /\ \E component_id \in {"found", "not_found", "error"} :
         /\ installations' = IF component_id = "found"
                             THEN Append(installations, found[idx])
                             ELSE installations
         /\ lookups' = Looked({[endpoint |-> "graphql", inst |-> found[idx],
                                ok |-> component_id = "found"]})
    /\ idx' = idx + 1
    /\ UNCHANGED <<syncVars, envVars, pc, exit_code, environment_type, dry_run,
                   deployment_run_id, deployment_start_time,
                   base_sequence_number, component_slug, github_repo,
                   deployed_version, deployVars, found, event_state,
                   description, git_info, payload, successful_installations,
                   failures, needs_setup, log, watched_payloads,
                   deploy_invoked, event_source_missing, migration, successful_begun>>

\* A variant that goes on when no installation could be verified.
InitializeInstallationsLenient ==
    /\ pc = "search_component_by_slug"
    /\ idx > Len(found)
    /\ UNCHANGED found
    /\ idx' = 0
    /\ IF FALSE
       THEN /\ Raise("component could not be verified")
            /\ UNCHANGED <<event_state, successful_begun>>
       ELSE /\ CallSend("IN_PROGRESS")
            /\ UNCHANGED <<exit_code, error_message>>
    /\ UNCHANGED <<syncVars, envVars, selfVars, in_progress_sent, deployment_succeeded,
                   post_deployment_phase, description, git_info, payload,
                   successful_installations, failures, needs_setup, log,
                   watched_payloads, deploy_invoked, verify_queries, lookups, event_source_missing, migration>>

\* initialize_installations(): after the loop, deploy() goes on to
\* send_deployment_event('IN_PROGRESS') unless nothing was verified.
InitializeInstallations ==
    /\ pc = "search_component_by_slug"
    /\ idx > Len(found)
    /\ UNCHANGED found
    /\ idx' = 0
    /\ IF found # <<>> /\ installations = <<>>
       THEN /\ Raise("component could not be verified")
            /\ UNCHANGED <<event_state, successful_begun>>
       ELSE /\ CallSend("IN_PROGRESS")
            /\ UNCHANGED <<exit_code, error_message>>
    /\ UNCHANGED <<syncVars, envVars, selfVars, in_progress_sent, deployment_succeeded,
                   post_deployment_phase, description, git_info, payload,
                   successful_installations, failures, needs_setup, log,
                   watched_payloads, deploy_invoked, verify_queries, lookups, event_source_missing, migration>>

\* -------------------------------------------------- send_deployment_event
\* A variant without the return for an empty list of installations.
SendDeploymentEventNoSkip ==
    /\ pc = "send_deployment_event"
    /\ IF ~ATLASSIAN_USER_EMAIL \/ ~ATLASSIAN_USER_API_KEY
       THEN SendRaise("Missing required environment variables")
       ELSE \/ SendRaise("forge whoami failed")
            \/ /\ description' = CreateDeploymentDescription(event_state)
               /\ \E hash \in {"short_hash", "unknown"} :
                    git_info' = [hash |-> hash]
               /\ idx' = 1
               /\ pc' = IF dry_run THEN "dry_run_payloads"
                        ELSE IF event_state = "IN_PROGRESS"
                        THEN "send_in_progress_notifications"
                        ELSE "send_final_notifications"
               /\ UNCHANGED <<exit_code, in_progress_sent, error_message,
                              payload, successful_installations,
                              failures, needs_setup>>
    /\ UNCHANGED <<syncVars, envVars, selfVars, deployment_succeeded,
                   post_deployment_phase, found, event_state, histVars>>

\* send_deployment_event(event_state) up to the choice of the sender:
\* the empty-list return, the credential check, the description (its
\* `forge whoami` may fail and raise) and the git information.
SendDeploymentEvent ==
    /\ pc = "send_deployment_event"
    /\ IF installations = <<>>
       THEN SendReturn
       ELSE IF ~ATLASSIAN_USER_EMAIL \/ ~ATLASSIAN_USER_API_KEY
       THEN SendRaise("Missing required environment variables")
       ELSE \/ SendRaise("forge whoami failed")
            \/ /\ description' = CreateDeploymentDescription(event_state)
               /\ \E hash \in {"short_hash", "unknown"} :
                    git_info' = [hash |-> hash]
               /\ idx' = 1
               /\ pc' = IF dry_run THEN "dry_run_payloads"
                        ELSE IF event_state = "IN_PROGRESS"
                        THEN "send_in_progress_notifications"
                        ELSE "send_final_notifications"
               /\ UNCHANGED <<exit_code, in_progress_sent, error_message,
                              payload, successful_installations,
                              failures, needs_setup>>
    /\ UNCHANGED <<syncVars, envVars, selfVars, deployment_succeeded,
                   post_deployment_phase, found, event_state, histVars>>

\* send_deployment_event(), dry run: one payload is built and printed.
DryRunPayload ==
    /\ pc = "dry_run_payloads"
    /\ idx <= Len(installations)
    /\ payload' \in Payloads(installations[idx], event_state, description,
                             git_info)
    /\ idx' = idx + 1
    /\ UNCHANGED <<syncVars, envVars, pc, exit_code, selfVars, deployVars, found,
                   event_state, description, git_info, successful_installations, failures, needs_setup, histVars>>

DryRunReturn ==
    /\ pc = "dry_run_payloads"
    /\ idx > Len(installations)
    /\ SendReturn
    /\ UNCHANGED <<syncVars, envVars, selfVars, deployment_succeeded,
                   post_deployment_phase, found, event_state, histVars>>

\* -------------------------------------------- send_in_progress_notifications
\* A variant that takes every response with a status for a success.
InProgressVerdictLenient(r) ==
    IF r.body = "exception" THEN "failure"
    ELSE IF r.status = 404 /\ r.body = "not_json" THEN "needs_setup"
    ELSE IF r.status = 404 /\ r.body = "CREATE_EVENT_SOURCE_NOT_FOUND"
         THEN "create_event_source"
    ELSE "successful"

\* A variant that starts the remediation on every 404 with a JSON body.
InProgressVerdictAny404(r) ==
    IF r.body = "exception" THEN "failure"
    ELSE IF r.status = 404 /\ r.body = "not_json" THEN "needs_setup"
    ELSE IF r.status = 404 THEN "create_event_source"
    ELSE IF Acknowledged(r) THEN "successful"
    ELSE "failure"

\* What the loop does with the first response for an installation.
InProgressVerdict(r) ==
    IF r.body = "exception" THEN "failure"
    ELSE IF r.status = 404 /\ r.body = "not_json" THEN "needs_setup"
    ELSE IF r.status = 404 /\ r.body = "CREATE_EVENT_SOURCE_NOT_FOUND"
         THEN "create_event_source"
    ELSE IF Acknowledged(r) THEN "successful"
    ELSE "failure"

\* The responses as the loop tells them apart, each with whether the remote
\* side acknowledged the event.
FirstResponses ==
    { [verdict |-> InProgressVerdict(r), ok |-> Acknowledged(r),
       missing |-> (r.status = 404 /\
                    r.body = "CREATE_EVENT_SOURCE_NOT_FOUND")] :
        r \in Responses }

\* One turn of the loop up to the first response: the payload is built and
\* POSTed.  The payload is kept only where the code uses it again (the retry).
InProgressPost ==
    /\ pc = "send_in_progress_notifications"
    /\ idx <= Len(installations)
    /\ LET inst == installations[idx] IN
       \E p \in Payloads(inst, "IN_PROGRESS", description, git_info),
          seen \in FirstResponses :
         LET verdict == seen.verdict IN
         /\ log' = Logged(inst, "IN_PROGRESS", seen.ok)
         /\ watched_payloads' = Posted(inst, p)
         /\ event_source_missing' =
              IF watched = 0 /\ seen.missing
              THEN event_source_missing \cup {inst}
              ELSE event_source_missing
         /\ successful_installations' =
              IF verdict = "successful"
              THEN Append(successful_installations, inst)
              ELSE successful_installations
         /\ failures' = IF verdict = "failure"
                        THEN Append(failures, inst) ELSE failures
         /\ needs_setup' = IF verdict = "needs_setup"
                           THEN Append(needs_setup, inst) ELSE needs_setup
         /\ IF verdict = "create_event_source"
            THEN pc' = "create_event_source" /\ idx' = idx /\ payload' = p
            ELSE pc' = pc /\ idx' = idx + 1 /\ payload' = NoPayload
    /\ UNCHANGED <<syncVars, envVars, exit_code, selfVars, deployVars, found,
                   event_state, description, git_info,
                   deploy_invoked, verify_queries, lookups, migration,
                   successful_begun>>

\* create_and_attach_event_source(), step 1: the create mutation.
CreateEventSource ==
    /\ pc = "create_event_source"
    /\ \E created \in BOOLEAN :
         /\ log' = Logged(installations[idx], "createEventSource", created)
         /\ IF created
            THEN /\ pc' = "attach_event_source"
                 /\ UNCHANGED <<idx, needs_setup>>
            ELSE /\ pc' = "send_in_progress_notifications"
                 /\ needs_setup' = Append(needs_setup, installations[idx])
                 /\ idx' = idx + 1
    /\ UNCHANGED <<syncVars, envVars, exit_code, selfVars, deployVars, found,
                   event_state, description, git_info, payload, successful_installations, failures,
                   watched_payloads, deploy_invoked, verify_queries, lookups, event_source_missing, migration,
                   successful_begun>>

\* create_and_attach_event_source(), step 2: the attach mutation.
AttachEventSource ==
    /\ pc = "attach_event_source"
    /\ \E attached \in BOOLEAN :
         /\ log' = Logged(installations[idx], "attachEventSource", attached)
         /\ IF attached
            THEN /\ pc' = "retry_post"
                 /\ UNCHANGED <<idx, needs_setup>>
            ELSE /\ pc' = "send_in_progress_notifications"
                 /\ needs_setup' = Append(needs_setup, installations[idx])
                 /\ idx' = idx + 1
    /\ UNCHANGED <<syncVars, envVars, exit_code, selfVars, deployVars, found,
                   event_state, description, git_info, payload, successful_installations, failures,
                   watched_payloads, deploy_invoked, verify_queries, lookups, event_source_missing, migration,
                   successful_begun>>

\* The retry after a successful remediation: the same payload is POSTed
\* again; anything but 200/202 (an exception too) puts the installation on
\* needs_setup.
RetryPost ==
    /\ pc = "retry_post"
    /\ LET inst == installations[idx] IN
       \E ok \in Deliveries :
         /\ log' = Logged(inst, "IN_PROGRESS", ok)
         /\ watched_payloads' = Posted(inst, payload)
         /\ IF ok
            THEN /\ successful_installations' =
                      Append(successful_installations, inst)
                 /\ UNCHANGED needs_setup
            ELSE /\ needs_setup' = Append(needs_setup, inst)
                 /\ UNCHANGED successful_installations
    /\ pc' = "send_in_progress_notifications"
    /\ idx' = idx + 1
    /\ payload' = NoPayload
    /\ UNCHANGED <<syncVars, envVars, exit_code, selfVars, deployVars, found,
                   event_state, description, git_info, failures,
                   deploy_invoked, verify_queries, lookups, event_source_missing, migration, successful_begun>>

\* After the loop: remediation failures raise at once; other failures start
\* the compensating FAILED sends; otherwise the function returns.
InProgressDone ==
    /\ pc = "send_in_progress_notifications"
    /\ idx > Len(installations)
    /\ IF needs_setup # <<>>
       THEN SendRaise("Event source creation failed")
       ELSE IF failures # <<>>
       THEN /\ pc' = "compensating_failed"
            /\ idx' = 1
            /\ UNCHANGED <<exit_code, in_progress_sent, error_message,
                           description, git_info, payload, successful_installations, failures, needs_setup>>
       ELSE SendReturn
    /\ UNCHANGED <<syncVars, envVars, selfVars, deployment_succeeded,
                   post_deployment_phase, found, event_state, histVars>>

\* A variant that walks the notification set instead of the list of
\* installations that acknowledged.
CompensatingFailedToAll ==
    /\ pc = "compensating_failed"
    /\ idx <= Len(successful_installations)
    /\ LET inst == installations[idx] IN
       \E p \in Payloads(inst, "FAILED", description, git_info),
          ok \in Deliveries :
         /\ log' = Logged(inst, "FAILED", ok)
         /\ watched_payloads' = Posted(inst, p)
    /\ idx' = idx + 1
    /\ UNCHANGED <<syncVars, envVars, pc, exit_code, selfVars, deployVars, found,
                   event_state, description, git_info, payload,
                   successful_installations, failures, needs_setup,
                   deploy_invoked, verify_queries, lookups,
                   event_source_missing, migration, successful_begun>>

\* One compensating FAILED send to an installation that acknowledged; its
\* outcome is only printed.
CompensatingFailed ==
    /\ pc = "compensating_failed"
    /\ idx <= Len(successful_installations)
    /\ LET inst == successful_installations[idx] IN
       \E p \in Payloads(inst, "FAILED", description, git_info),
          ok \in Deliveries :
         /\ log' = Logged(inst, "FAILED", ok)
         /\ watched_payloads' = Posted(inst, p)
    /\ idx' = idx + 1
    /\ UNCHANGED <<syncVars, envVars, pc, exit_code, selfVars, deployVars, found,
                   event_state, description, git_info, payload,
                   successful_installations, failures, needs_setup,
                   deploy_invoked, verify_queries, lookups, event_source_missing, migration, successful_begun>>

\* After the compensating sends: "Deployment aborted" is raised.
CompensatingDone ==
    /\ pc = "compensating_failed"
    /\ idx > Len(successful_installations)
    /\ SendRaise("Deployment aborted: Failed to send notifications")
    /\ UNCHANGED <<syncVars, envVars, selfVars, deployment_succeeded,
                   post_deployment_phase, found, event_state, histVars>>

\* A variant of the loop of send_final_notifications that raises on the
\* first delivery that is not acknowledged.
FinalPostAllOrNothing ==
    /\ pc = "send_final_notifications"
    /\ idx <= Len(installations)
    /\ LET inst == installations[idx] IN
       \E p \in Payloads(inst, event_state, description, git_info),
          ok \in Deliveries :
         /\ log' = Logged(inst, event_state, ok)
         /\ watched_payloads' = Posted(inst, p)
         /\ IF ok
            THEN /\ idx' = idx + 1
                 /\ UNCHANGED <<pc, exit_code, in_progress_sent,
                                error_message, description, git_info,
                                payload, successful_installations, failures,
                                needs_setup>>
            ELSE SendRaise("delivery failed")
    /\ UNCHANGED <<syncVars, envVars, selfVars, deployment_succeeded,
                   post_deployment_phase, found, event_state,
                   deploy_invoked, verify_queries, lookups, event_source_missing, migration, successful_begun>>

\* ------------------------------------------------ send_final_notifications
\* One turn of the loop: the payload is built, validated ("local") and
\* POSTed; a failure of either is printed and kept for the summary, never
\* raised.
FinalPost ==
    /\ pc = "send_final_notifications"
    /\ idx <= Len(installations)
    /\ LET inst == installations[idx] IN
       \E p \in Payloads(inst, event_state, description, git_info),
          ok \in Deliveries :
         IF script = "local" /\ ~ValidateEventPayload(p, event_state)
         THEN UNCHANGED <<log, watched_payloads>>
         ELSE /\ log' = Logged(inst, event_state, ok)
              /\ watched_payloads' = Posted(inst, p)
    /\ idx' = idx + 1
    /\ UNCHANGED <<syncVars, envVars, pc, exit_code, selfVars, deployVars, found,
                   event_state, description, git_info, payload,
                   successful_installations, failures, needs_setup,
                   deploy_invoked, verify_queries, lookups, event_source_missing, migration, successful_begun>>

\* A variant that raises after the loop instead of returning.
FinalDoneRaising ==
    /\ pc = "send_final_notifications"
    /\ idx > Len(installations)
    /\ SendRaise("Failed to send final notifications")
    /\ UNCHANGED <<syncVars, envVars, selfVars, deployment_succeeded,
                   post_deployment_phase, found, event_state, histVars>>

\* After the loop the summary is printed and the function returns.
FinalDone ==
    /\ pc = "send_final_notifications"
    /\ idx > Len(installations)
    /\ SendReturn
    /\ UNCHANGED <<syncVars, envVars, selfVars, deployment_succeeded,
                   post_deployment_phase, found, event_state, histVars>>

\* ------------------------------------------------------------ deploy steps
\* deploy(): what follows a deployment that did not raise.
AfterDeploy ==
    /\ deployment_succeeded' = TRUE
    /\ IF script = "local"
       THEN /\ post_deployment_phase' = TRUE
            /\ pc' = "run_sql_migrate"
            /\ UNCHANGED <<event_state, successful_begun>>
       ELSE /\ UNCHANGED post_deployment_phase
            /\ CallSend("SUCCESSFUL")
    /\ UNCHANGED <<exit_code, error_message>>

\* run_forge_deploy(): a dry run returns at once; otherwise the CLI runs, the
\* version is extracted from its output ("local") and a non-zero exit raises.
RunForgeDeploy ==
    /\ pc = "run_forge_deploy"
    /\ IF dry_run
       THEN /\ AfterDeploy
            /\ UNCHANGED <<deployed_version, deploy_invoked>>
       ELSE /\ deploy_invoked' = TRUE
            /\ \E version \in
                   IF script = "local" THEN {None, "1.2.3"} ELSE {None} :
                 deployed_version' = version
            /\ \/ AfterDeploy
               \/ /\ Raise("forge deploy command failed")
                  /\ UNCHANGED <<deployment_succeeded, post_deployment_phase,
                                 event_state, successful_begun>>
    /\ UNCHANGED <<syncVars, envVars, dry_run, deployment_run_id, environment_type,
                   deployment_start_time,
                   base_sequence_number, component_slug, github_repo,
                   installations, in_progress_sent, found, description,
                   git_info, payload, idx, successful_installations,
                   failures, needs_setup, log,
                   watched_payloads, verify_queries, lookups, event_source_missing, migration>>

\* run_sql_migrate() of the "local" script, by outcome.
MigrateOutcomes ==
    {"no_matching_installation", "no_trigger_url", "status_error",
     "network_error", "not_json", "migrated",
     "success_false", "status_not_success", "pending_migrations"}

MigrateError(outcome) ==
    CASE outcome = "no_matching_installation" ->
             "No installation found for environment"
      [] outcome = "success_false" -> "SQL migrations failed"
      [] outcome = "status_not_success" ->
             "SQL migrations did not complete successfully"
      [] outcome = "pending_migrations" -> "SQL migrations incomplete"
      [] OTHER -> None

\* str.lower() of a string.
Lower(s) == [k \in 1..Len(s) |-> LowerChar(s[k])]

\* The forge environments the installations of the notification set can
\* carry (the 'environment' field of `forge install list`, 'unknown' when
\* absent): one that differs from the argument of the run in case only and
\* one that differs from it altogether.
InstallEnvironments ==
    {STAGING, <<"u", "n", "k", "n", "o", "w", "n">>}

\* What the call of the web trigger can come to: no URL was found, the POST
\* raised, the status was not 200/202, the body was not JSON, or the body
\* was JSON with these fields (pendingMigrations is -1 when absent).
TriggerResponses ==
    { [kind |-> k, success |-> FALSE, status |-> "", pending |-> 0] :
        k \in {"no_trigger_url", "network_error", "status_error", "not_json"} }
    \cup [kind : {"json"}, success : BOOLEAN,
          status : {"SUCCESS", "FAILED"}, pending : {-1, 0, 1}]

\* A variant that does not look at pendingMigrations.
MigrateOutcomeIgnoringPending(envs, response) ==
    IF ~\E e \in envs : Lower(e) = Lower(environment)
    THEN "no_matching_installation"
    ELSE IF response.kind # "json" THEN response.kind
    ELSE IF ~response.success THEN "success_false"
    ELSE IF response.status # "SUCCESS" THEN "status_not_success"
    ELSE "migrated"

\* run_sql_migrate(): the way it takes, given the forge environments of the
\* installations and the answer of the web trigger.
MigrateOutcome(envs, response) ==
    IF ~\E e \in envs : Lower(e) = Lower(environment)
    THEN "no_matching_installation"
    ELSE IF response.kind # "json" THEN response.kind
    ELSE IF ~response.success THEN "success_false"
    ELSE IF response.status # "SUCCESS" THEN "status_not_success"
    ELSE IF response.pending > 0 THEN "pending_migrations"
    ELSE "migrated"

\* run_sql_migrate() and, when it returns, send_deployment_event
\* ('SUCCESSFUL').  The forge environments of the installations are chosen
\* here, where they are first read.
RunSqlMigrate ==
    /\ pc = "run_sql_migrate"
    /\ IF dry_run \/ installations = <<>>
       THEN /\ CallSend("SUCCESSFUL")
            /\ UNCHANGED <<exit_code, error_message, migration>>
       ELSE \E envs \in SUBSET InstallEnvironments,
               response \in TriggerResponses \cup {NoResponse} :
              LET outcome == MigrateOutcome(envs, response) IN
              /\ envs # {}
              /\ Cardinality(envs) <= Len(installations)
              /\ response = NoResponse <=> outcome = "no_matching_installation"
              /\ migration' = IF watched = 0
                              THEN [envs |-> envs, response |-> response]
                              ELSE migration
              /\ IF MigrateError(outcome) # None
                 THEN /\ Raise(MigrateError(outcome))
                      /\ UNCHANGED <<event_state, successful_begun>>
                 ELSE /\ CallSend("SUCCESSFUL")
                      /\ UNCHANGED <<exit_code, error_message>>
    /\ UNCHANGED <<syncVars, envVars, selfVars, in_progress_sent, deployment_succeeded,
                   post_deployment_phase, found, description, git_info,
                   payload, idx, successful_installations,
                   failures, needs_setup, log, watched_payloads,
                   deploy_invoked, verify_queries, lookups,
                   event_source_missing>>

\* deploy(): the except block up to the FAILED call or sys.exit(1).
DeployExcept ==
    /\ pc = "except"
    /\ IF ShouldSendFailed(in_progress_sent, deployment_succeeded,
                           post_deployment_phase, error_message)
       THEN /\ CallSend("FAILED")
            /\ UNCHANGED exit_code
       ELSE /\ Exit(1)
            /\ UNCHANGED <<event_state, successful_begun>>
    /\ UNCHANGED <<syncVars, envVars, selfVars, deployVars, found, description,
                   git_info, payload, idx,
                   successful_installations, failures, needs_setup, log, watched_payloads,
                   deploy_invoked, verify_queries, lookups, event_source_missing, migration>>

\* --------------------------------------------------------- specifications
Next ==
    \/ Main
    \/ LoadCatalogInfo
    \/ GetAllInstallations
    \/ SearchComponentBySlug
    \/ InitializeInstallations
    \/ SendDeploymentEvent
    \/ DryRunPayload
    \/ DryRunReturn
    \/ InProgressPost
    \/ CreateEventSource
    \/ AttachEventSource
    \/ RetryPost
    \/ InProgressDone
    \/ CompensatingFailed
    \/ CompensatingDone
    \/ FinalPost
    \/ FinalDone
    \/ RunForgeDeploy
    \/ RunSqlMigrate
    \/ DeployExcept

Spec == Init /\ [][Next]_vars

SpecPayload == InitPayload /\ [][Next]_vars

\* The runs up to the construction of the notifier, for every environment
\* argument of EnvironmentInputs.
SpecEnvironment == InitEnvironment /\ [][Main]_vars

\* ------------------------------------------------------ the file-sync tool
SyncScripts == {"to-siblings", "between-siblings"}

\* The leading entries of FILES_TO_COPY of copy-files-to-siblings.py.
ToSiblingsFiles == <<"AGENTS.md", "CONTRIBUTING.md", "eslint.config.mjs">>

\* Three consecutive entries of FILES_TO_COPY of
\* copy-files-between-siblings.py, the first of them the directory entry.
BetweenSiblingsFiles == <<".cursor", ".prettierrc.cjs", "AGENTS.md">>

FILES_TO_COPY ==
    SubSeq(IF sync_script = "to-siblings" THEN ToSiblingsFiles
                                          ELSE BetweenSiblingsFiles,
           1, MaxItems)

Items == { FILES_TO_COPY[k] : k \in 1..Len(FILES_TO_COPY) }

\* Path.cwd().name, and the names the other entries of the parent can have,
\* in sorted() order.
CurrentDirName == "standards"
NameOrder    == <<"app", "lib", "web">>
SiblingNames == { NameOrder[k] : k \in 1..MaxSiblings }

\* What is at a path: nothing, a file or a directory.  `data` is what it
\* holds: for a file one pair <<"", origin>>, for a directory one pair
\* <<name, origin>> per entry, where origin names the directory of the parent
\* the bytes were first found in.
Absent       == [kind |-> "absent", data |-> {}]
File(origin) == [kind |-> "file", data |-> {<<"", origin>>}]
Dir(entries) == [kind |-> "dir", data |-> entries]
\* A file that a failed copy left truncated or half written.
Partial      == [kind |-> "file", data |-> {<<"", "partial">>}]

\* Path.exists() and Path.is_dir()
Exists(c) == c.kind # "absent"
IsDir(c)  == c.kind = "dir"

\* An entry of the parent that is not a directory.
PlainFile ==
    [is_dir |-> FALSE, link |-> "", items |-> [f \in Items |-> Absent]]

\* An entry of the parent that is a symbolic link to the current directory:
\* is_dir() follows the link, and so does every path built through it.
LinkToCurrent ==
    [is_dir |-> TRUE, link |-> CurrentDirName,
     items |-> [f \in Items |-> Absent]]

\* The entry `name` of the parent, built from a shape: "plain", "link" or,
\* for a directory, what kind of thing is at each path of FILES_TO_COPY.
Materialise(name, shape) ==
    IF shape = <<"plain">> THEN PlainFile
    ELSE IF shape = <<"link">> THEN LinkToCurrent
    ELSE [is_dir |-> TRUE,
          link   |-> "",
          items  |-> [f \in Items |->
                        CASE shape[f] = "absent" -> Absent
                          [] shape[f] = "file"   -> File(name)
                          [] shape[f] = "dir"    ->
                                 Dir({<<"rules.mdc", name>>})]]

DirShapes == [Items -> {"absent", "file", "dir"}]

\* The directory a path through the entry `name` of the parent ends in.
Resolve(name) == IF tree[name].link # "" THEN tree[name].link ELSE name

\* The notifier is not running.
NotifierIdle ==
    /\ script = "local"
    /\ ATLASSIAN_USER_EMAIL = FALSE
    /\ ATLASSIAN_USER_API_KEY = FALSE
    /\ dry_run = FALSE
    /\ site_limit = 0
    /\ clock_top = 0
    /\ watched = 0
    /\ environment = <<>>
    /\ InitCommon

\* A run of either script in a parent directory that holds the current
\* directory and up to MaxSiblings other entries: directories, plain files
\* or links to the current directory.
InitSync ==
    /\ NotifierIdle
    /\ sync_script \in SyncScripts
    /\ \E S \in SUBSET SiblingNames :
         \E own \in DirShapes :
           \E others \in [S -> DirShapes \cup {<<"plain">>, <<"link">>}] :
             tree = [n \in S \cup {CurrentDirName} |->
                        IF n = CurrentDirName
                        THEN Materialise(n, own)
                        ELSE Materialise(n, others[n])]
    /\ tree0 = tree
    /\ sync_pc = IF sync_script = "to-siblings" THEN "verify_source_files"
                                                ELSE "select_direction"
    /\ sync_exit = -1
    \* copy-files-to-siblings.py knows one direction only
    /\ direction = IF sync_script = "to-siblings" THEN "to" ELSE ""
    /\ existing_files = <<>>
    /\ directories = <<>>
    /\ selected_directories = <<>>
    /\ selected_dir_name = ""
    /\ dir_idx = 0
    /\ item_idx = 0
    /\ copied_count = 0
    /\ trail = <<>>
    /\ attempts = <<>>
    /\ reported = -1

\* sys.exit(status), or the return of the entry point (status 0)
SyncExit(status) ==
    /\ sync_pc' = "exit"
    /\ sync_exit' = status

\* select_direction(): the prompt answers, is dismissed, is interrupted or
\* fails.
SelectDirection ==
    /\ sync_pc = "select_direction"
    /\ trail' = Append(trail, "select_direction")
    /\ \/ \E answer \in {"to", "from"} :
            /\ direction' = answer
            /\ sync_pc' = IF answer = "to" THEN "get_existing_files"
                                           ELSE "get_sibling_directories"
            /\ UNCHANGED sync_exit
       \/ \E status \in {0, 1} :
            /\ SyncExit(status)
            /\ UNCHANGED direction
    /\ UNCHANGED <<notifierVars, sync_script, tree, existing_files,
                   directories, selected_directories, selected_dir_name,
                   dir_idx, item_idx, copied_count, tree0, attempts,
                   reported>>

SourceFilesPresentLenient(dir_items, files) == TRUE

\* verify_source_files() finds every entry of `files`.
SourceFilesPresent(dir_items, files) ==
    \A k \in 1..Len(files) : Exists(dir_items[files[k]])

VerifySourceFiles ==
    /\ sync_pc = "verify_source_files"
    /\ trail' = Append(trail, "verify_source_files")
    /\ IF SourceFilesPresent(tree[CurrentDirName].items, FILES_TO_COPY)
       THEN /\ sync_pc' = "get_sibling_directories"
            /\ UNCHANGED sync_exit
       ELSE SyncExit(1)
    /\ UNCHANGED <<notifierVars, sync_script, tree, direction,
                   existing_files, directories, selected_directories,
                   selected_dir_name, dir_idx, item_idx, copied_count,
                   tree0, attempts, reported>>

ExistingFilesUnfiltered(dir_items, files) == files

\* get_existing_files(): the entries of `files` that exist, in order.
RECURSIVE ExistingFiles(_, _)
ExistingFiles(dir_items, files) ==
    IF files = <<>> THEN <<>>
    ELSE (IF Exists(dir_items[Head(files)]) THEN <<Head(files)>> ELSE <<>>)
         \o ExistingFiles(dir_items, Tail(files))

\* The directory the items are read from, the directories they are written
\* to and the items worked through.
SourceDir == IF direction = "from" THEN selected_dir_name ELSE CurrentDirName
Targets   == IF direction = "from" THEN <<CurrentDirName>>
                                   ELSE selected_directories
ItemsToCopy == IF sync_script = "to-siblings" THEN FILES_TO_COPY
                                              ELSE existing_files

GetExistingFiles ==
    /\ sync_pc = "get_existing_files"
    /\ trail' = Append(trail, "get_existing_files")
    /\ LET existing == ExistingFiles(tree[Resolve(SourceDir)].items,
                                     FILES_TO_COPY)
       IN  /\ existing_files' = existing
           /\ IF existing = <<>>
              THEN /\ SyncExit(0)
                   /\ UNCHANGED <<dir_idx, item_idx>>
              ELSE IF direction = "to"
              THEN /\ sync_pc' = "get_sibling_directories"
                   /\ UNCHANGED <<sync_exit, dir_idx, item_idx>>
              ELSE /\ sync_pc' = "copy"
                   /\ dir_idx' = 1
                   /\ item_idx' = 1
                   /\ UNCHANGED sync_exit
    /\ UNCHANGED <<notifierVars, sync_script, tree, direction, directories,
                   selected_directories, selected_dir_name, copied_count,
                   tree0, attempts, reported>>

\* The names get_sibling_directories() keeps.
SiblingDirectories(entries, current_dir_name) ==
    { n \in DOMAIN entries : entries[n].is_dir /\ n # current_dir_name }

\* The orders in which iterdir() can list a set of names.
Orders(S) ==
    { s \in [1..Cardinality(S) -> S] :
        \A i, j \in 1..Cardinality(S) : i # j => s[i] # s[j] }

GetSiblingDirectories ==
    /\ sync_pc = "get_sibling_directories"
    /\ trail' = Append(trail, "get_sibling_directories")
    /\ \/ /\ SyncExit(1)
          /\ UNCHANGED directories
       \/ \E order \in Orders(SiblingDirectories(tree, CurrentDirName)) :
            /\ directories' = order
            /\ IF order = <<>>
               THEN SyncExit(0)
               ELSE /\ sync_pc' = IF direction = "to"
                                  THEN "select_directories"
                                  ELSE "select_single_directory"
                    /\ UNCHANGED sync_exit
    /\ UNCHANGED <<notifierVars, sync_script, tree, direction,
                   existing_files, selected_directories, selected_dir_name,
                   dir_idx, item_idx, copied_count, tree0, attempts,
                   reported>>

\* sorted() of a set of names, as a list
Sorted(S) == SelectSeq(NameOrder \o <<CurrentDirName>>, LAMBDA n : n \in S)

\* select_directories(): the checkbox prompt returns some of the options
\* ('All' among them), nothing, is interrupted or fails.
SelectDirectories ==
    /\ sync_pc = "select_directories"
    /\ trail' = Append(trail, "select_directories")
    /\ \/ \E status \in {0, 1} :
            /\ SyncExit(status)
            /\ UNCHANGED <<selected_directories, dir_idx, item_idx>>
       \/ \E selected \in
              (SUBSET ({"All"} \cup
                       { directories[k] : k \in 1..Len(directories) }))
              \ {{}} :
            /\ selected_directories' =
                   IF "All" \in selected THEN directories
                                         ELSE Sorted(selected)
            /\ sync_pc' = "copy"
            /\ dir_idx' = 1
            /\ item_idx' = 1
            /\ UNCHANGED sync_exit
    /\ UNCHANGED <<notifierVars, sync_script, tree, direction,
                   existing_files, directories, selected_dir_name,
                   copied_count, tree0, attempts, reported>>

\* select_single_directory(): the list prompt returns one of the options, is
\* dismissed, is interrupted or fails.
SelectSingleDirectory ==
    /\ sync_pc = "select_single_directory"
    /\ trail' = Append(trail, "select_single_directory")
    /\ \/ \E status \in {0, 1} :
            /\ SyncExit(status)
            /\ UNCHANGED selected_dir_name
       \/ \E k \in 1..Len(directories) :
            /\ selected_dir_name' = directories[k]
            /\ sync_pc' = "get_existing_files"
            /\ UNCHANGED sync_exit
    /\ UNCHANGED <<notifierVars, sync_script, tree, direction,
                   existing_files, directories, selected_directories,
                   dir_idx, item_idx, copied_count, tree0, attempts,
                   reported>>

\* copy_file_to_directory(): what it returns and what is at target_path
\* afterwards.  copy2 raises before it touches the target when the source
\* is not a regular file; it writes into the target when that is a
\* directory; a failure leaves the target as it was or half written.
CopyFileToDirectory(source, target, file) ==
    IF source.kind # "file"
    THEN {[ok |-> FALSE, target |-> target]}
    ELSE IF target.kind = "dir"
    THEN LET kept == { e \in target.data : e[1] # file }
         IN  {[ok |-> TRUE,
               target |-> Dir(kept \cup { <<file, e[2]>> : e \in source.data })],
              [ok |-> FALSE, target |-> target],
              [ok |-> FALSE, target |-> Dir(kept \cup {<<file, "partial">>})]}
    ELSE {[ok |-> TRUE, target |-> source],
          [ok |-> FALSE, target |-> target],
          [ok |-> FALSE, target |-> Partial]}

\* shutil.copytree onto a path where nothing is: the whole tree, or a
\* failure that leaves nothing or any part of the tree behind.
CopyTree(source) ==
    {[ok |-> TRUE, target |-> Dir(source.data)]}
    \cup { [ok |-> FALSE, target |-> t] :
             t \in {Absent} \cup { Dir(S) : S \in SUBSET source.data } }

\* copy_directory_to_directory(): rmtree raises on a target that is not a
\* directory, can fail part way through one that is, and is followed by
\* copytree when it succeeded.
CopyDirectoryToDirectory(source, target) ==
    IF target.kind = "file"
    THEN {[ok |-> FALSE, target |-> target]}
    ELSE IF target.kind = "dir"
    THEN { [ok |-> FALSE, target |-> Dir(S)] : S \in SUBSET target.data }
         \cup CopyTree(source)
    ELSE CopyTree(source)

\* Either copy function called with source_path and target_path naming the
\* same place: copy2 raises SameFileError before it writes; rmtree removes
\* the tree, all of it or part of it, and copytree then finds no source.
CopyOntoItself(source, as_dir) ==
    IF as_dir
    THEN { [ok |-> FALSE, target |-> t] :
             t \in {Absent} \cup { Dir(S) : S \in SUBSET source.data } }
    ELSE {[ok |-> FALSE, target |-> source]}

\* One pass of the inner loop body.
CopyItem ==
    /\ sync_pc = "copy"
    /\ LET dir_name == Targets[dir_idx]
           item     == ItemsToCopy[item_idx]
           from     == Resolve(SourceDir)
           to       == Resolve(dir_name)
           source   == tree[from].items[item]
           target   == tree[to].items[item]
           as_dir   == sync_script = "between-siblings" /\ IsDir(source)
           outcomes == IF from = to
                       THEN CopyOntoItself(source, as_dir)
                       ELSE IF as_dir
                       THEN CopyDirectoryToDirectory(source, target)
                       ELSE CopyFileToDirectory(source, target, item)
       IN  /\ \E o \in outcomes :
                /\ tree' = [tree EXCEPT ![to].items[item] = o.target]
                /\ copied_count' = copied_count + (IF o.ok THEN 1 ELSE 0)
                /\ attempts' = Append(attempts,
                                      [dir |-> dir_name, item |-> item,
                                       as_dir |-> as_dir, ok |-> o.ok,
                                       source |-> source, before |-> target,
                                       after |-> o.target])
           /\ IF item_idx < Len(ItemsToCopy)
              THEN /\ item_idx' = item_idx + 1
                   /\ UNCHANGED <<dir_idx, sync_pc>>
              ELSE IF dir_idx < Len(Targets)
              THEN /\ dir_idx' = dir_idx + 1
                   /\ item_idx' = 1
                   /\ UNCHANGED sync_pc
              ELSE /\ sync_pc' = "completed"
                   /\ UNCHANGED <<dir_idx, item_idx>>
    /\ UNCHANGED <<notifierVars, sync_script, sync_exit, direction,
                   existing_files, directories, selected_directories,
                   selected_dir_name, tree0, trail, reported>>

\* The last line of the copy function, then the return.
Completed ==
    /\ sync_pc = "completed"
    /\ reported' = copied_count
    /\ SyncExit(0)
    /\ UNCHANGED <<notifierVars, sync_script, tree, direction,
                   existing_files, directories, selected_directories,
                   selected_dir_name, dir_idx, item_idx, copied_count,
                   tree0, trail, attempts>>

NextSync ==
    \/ SelectDirection
    \/ VerifySourceFiles
    \/ GetExistingFiles
    \/ GetSiblingDirectories
    \/ SelectDirectories
    \/ SelectSingleDirectory
    \/ CopyItem
    \/ Completed

SpecSync == InitSync /\ [][NextSync]_vars

\* ------------------------------------------------------------ properties
Members(seq) == { seq[k] : k \in 1..Len(seq) }

\* The remote calls of one kind made about installation i so far.
Attempts(i, kind) ==
    Cardinality({ k \in 1..Len(log[i]) : log[i][k].kind = kind })

\* Installation i answered an IN_PROGRESS event with 200 or 202.
AcknowledgedInProgress(i) ==
    \E k \in 1..Len(log[i]) :
        log[i][k].kind = "IN_PROGRESS" /\ log[i][k].ok

\* Some delivery of the given kind to installation i was not acknowledged.
Unacknowledged(i, kind) ==
    \E k \in 1..Len(log[i]) : log[i][k].kind = kind /\ ~log[i][k].ok

\* C1: `forge deploy` has been started only if every installation of the
\* notification set acknowledged an IN_PROGRESS event (at the first attempt
\* or at the retry); a run in which one did not never starts it.
C1_DeployOnlyAfterAllAcknowledged ==
    deploy_invoked =>
        \A i \in Members(installations) : AcknowledgedInProgress(i)

\* C1 witness: the deployment started after two or more installations
\* acknowledged, one of them only at the retry that follows remediation.
C1_Witness ==
    /\ deploy_invoked
    /\ Len(installations) >= 2
    /\ \E i \in Members(installations) : Attempts(i, "IN_PROGRESS") = 2

\* The IN_PROGRESS phase made a delivery attempt and the run ended without
\* in_progress_sent being set: the phase raised.
InProgressAborted ==
    /\ pc = "exit"
    /\ ~in_progress_sent
    /\ \E i \in 1..site_limit : Attempts(i, "IN_PROGRESS") > 0

\* C2: when the IN_PROGRESS phase fails for some installation, whatever the
\* reason, every installation that acknowledged got exactly one compensating
\* FAILED attempt, no other installation got one, deploy was not started and
\* the exit status is non-zero.
C2_CompensationForEveryFailure ==
    InProgressAborted =>
        /\ \A i \in 1..site_limit :
              Attempts(i, "FAILED") =
                  IF AcknowledgedInProgress(i) THEN 1 ELSE 0
        /\ exit_code = 1
        /\ ~deploy_invoked

\* C3: once send_deployment_event('SUCCESSFUL') has been called, no FAILED
\* event has been or is sent to any installation.
C3_NoFailedOnceSuccessfulBegun ==
    successful_begun =>
        \A i \in 1..site_limit : Attempts(i, "FAILED") = 0

\* ------------------------------------------------- properties of payloads
\* The payloads the run has shown so far: those POSTed to the watched
\* installation and the one held by the running function (the payload kept
\* for the retry, the payload a dry run printed last).
SeenPayloads ==
    Members(watched_payloads) \cup
        (IF payload = NoPayload THEN {} ELSE {payload})

StateOf(p) == p.event.deployment.deploymentProperties.state
IsTerminal(p) == StateOf(p) \in {"SUCCESSFUL", "FAILED"}

\* C4: in the "local" script an IN_PROGRESS payload carries the base sequence
\* number in sequenceNumber and updateSequenceNumber, and every SUCCESSFUL or
\* FAILED payload carries strictly greater numbers in both, so each is
\* strictly above those of every IN_PROGRESS payload of the run, whatever the
\* clock read when it was built.
C4_TerminalSequenceAboveInProgress ==
    script = "local" =>
        /\ \A p \in SeenPayloads :
              LET d == p.event.deployment
                  dp == d.deploymentProperties
              IN  IF StateOf(p) = "IN_PROGRESS"
                  THEN /\ dp.sequenceNumber = base_sequence_number
                       /\ d.updateSequenceNumber = base_sequence_number
                  ELSE /\ dp.sequenceNumber > base_sequence_number
                       /\ d.updateSequenceNumber > base_sequence_number
        /\ \A p, q \in SeenPayloads :
              (StateOf(p) = "IN_PROGRESS" /\ IsTerminal(q)) =>
                  /\ q.event.deployment.deploymentProperties.sequenceNumber >
                         p.event.deployment.deploymentProperties.sequenceNumber
                  /\ q.event.deployment.updateSequenceNumber >
                         p.event.deployment.updateSequenceNumber

\* C4 witness: the base sequence number is the largest reading the clock can
\* give, so the clock has not advanced when the watched installation gets a
\* terminal payload after its IN_PROGRESS payload.
C4_Witness ==
    /\ script = "local"
    /\ base_sequence_number = clock_top
    /\ \E j, k \in 1..Len(watched_payloads) :
          /\ j < k
          /\ StateOf(watched_payloads[j]) = "IN_PROGRESS"
          /\ IsTerminal(watched_payloads[k])
          /\ watched_payloads[k].event.deployment.updateSequenceNumber =
                 base_sequence_number + 1

\* C5: an IN_PROGRESS payload and a later terminal payload for the same
\* installation carry the same url, in deployment.url and in
\* deploymentProperties.pipeline.url, whatever the git commands returned.
C5_SameUrlAcrossEvents ==
    \A j, k \in 1..Len(watched_payloads) :
        (/\ j < k
         /\ StateOf(watched_payloads[j]) = "IN_PROGRESS"
         /\ IsTerminal(watched_payloads[k])) =>
            /\ watched_payloads[k].event.deployment.url =
                   watched_payloads[j].event.deployment.url
            /\ watched_payloads[k].event.deployment.deploymentProperties
                   .pipeline.url =
                   watched_payloads[j].event.deployment.deploymentProperties
                   .pipeline.url

\* C6: every payload of the run carries the run id of the constructor as
\* pipelineId and the start time of the constructor as startedAt.
C6_SamePipelineIdAndStartedAt ==
    \A p \in SeenPayloads :
        LET dp == p.event.deployment.deploymentProperties
        IN  /\ dp.pipeline.pipelineId = deployment_run_id
            /\ dp.startedAt = deployment_start_time

\* C6 witness: the watched installation got an IN_PROGRESS payload, the same
\* payload again at the retry, and a compensating FAILED payload built at a
\* clock reading other than the start time.
C6_Witness ==
    /\ Len(watched_payloads) = 3
    /\ StateOf(watched_payloads[1]) = "IN_PROGRESS"
    /\ StateOf(watched_payloads[2]) = "IN_PROGRESS"
    /\ StateOf(watched_payloads[3]) = "FAILED"
    /\ ~in_progress_sent
    /\ watched_payloads[3].event.deployment.deploymentProperties.completedAt
           # deployment_start_time

\* C7: deploymentProperties has completedAt exactly when the state is not
\* IN_PROGRESS, and has startedAt in every state.
C7_CompletedAtIffNotInProgress ==
    \A p \in SeenPayloads :
        LET dp == p.event.deployment.deploymentProperties
        IN  /\ ("completedAt" \in DOMAIN dp) <=> (dp.state # "IN_PROGRESS")
            /\ "startedAt" \in DOMAIN dp

\* C7 witness: payloads of all three states have been seen in runs of the
\* "forge" script, which does not validate its payloads.
C7_Witness ==
    /\ script = "forge"
    /\ \E j, k \in 1..Len(watched_payloads) :
          /\ StateOf(watched_payloads[j]) = "IN_PROGRESS"
          /\ StateOf(watched_payloads[k]) = "SUCCESSFUL"

\* ------------------------------------------ properties of the orchestration
\* No event was POSTed and no remediation call made for any installation.
NothingSent == \A i \in 1..site_limit : log[i] = <<>>

\* Discovery found installations and verification, now over, kept none.
NoneVerified ==
    /\ found # <<>>
    /\ installations = <<>>
    /\ pc # "search_component_by_slug"

\* C8: when installations were discovered and the component was verified in
\* none, the run is in the handler of deploy() or has ended, with status 1
\* once ended; send_deployment_event was never called, no event of any state
\* was sent and `forge deploy` was not started.
C8_AbortWhenNoneVerified ==
    NoneVerified =>
        /\ pc \in {"except", "exit"}
        /\ error_message = "component could not be verified"
        /\ event_state = None
        /\ NothingSent
        /\ ~deploy_invoked
        /\ ~in_progress_sent
        /\ (pc = "exit" => exit_code = 1)

\* C8 witness: two or more installations were discovered, each was queried,
\* none verified, and the run has ended.
C8_Witness ==
    /\ NoneVerified
    /\ pc = "exit"
    /\ Len(found) >= 2
    /\ verify_queries = Len(found)

\* get_all_installations returned an empty list.
ZeroDiscovered ==
    /\ event_state # None
    /\ found = <<>>

\* C9: when no installation was discovered, no component lookup is issued
\* and no event of any state is sent; a run that is not a dry run ends only
\* after `forge deploy` was started, and ends with status 0 when the
\* deployment succeeded.
C9_ZeroInstallationsRunCompletes ==
    ZeroDiscovered =>
        /\ verify_queries = 0
        /\ NothingSent
        /\ watched_payloads = <<>>
        /\ installations = <<>>
        /\ (pc = "exit" /\ ~dry_run => deploy_invoked)
        /\ (pc = "exit" /\ deployment_succeeded => exit_code = 0)

\* C9 witness: no installation, `forge deploy` ran and exited zero, all three
\* notification steps were no-ops and the run has ended with status 0.
C9_Witness ==
    /\ ZeroDiscovered
    /\ pc = "exit"
    /\ exit_code = 0
    /\ deploy_invoked
    /\ successful_begun

\* `forge deploy` exited non-zero.
DeployFailed == error_message = "forge deploy command failed"

\* C10: when `forge deploy` exits non-zero, every installation of the
\* notification set had acknowledged IN_PROGRESS, the SUCCESSFUL step is
\* never begun and no SUCCESSFUL event is sent; the run ends with status 1
\* and only after send_deployment_event('FAILED') was called; no installation
\* gets more than one FAILED event, and once one got it the step goes on to
\* every other whether or not it was acknowledged.
C10_FailedAttemptedAfterDeployFailure ==
    DeployFailed =>
        /\ deploy_invoked
        /\ in_progress_sent
        /\ ~deployment_succeeded
        /\ \A i \in Members(installations) : AcknowledgedInProgress(i)
        /\ ~successful_begun
        /\ \A i \in 1..site_limit : Attempts(i, "SUCCESSFUL") = 0
        /\ \A i \in 1..site_limit : Attempts(i, "FAILED") <= 1
        /\ (pc = "exit" =>
              /\ exit_code = 1
              /\ event_state = "FAILED"
              /\ \/ \A i \in Members(installations) :
                        Attempts(i, "FAILED") = 1
                 \/ \A i \in Members(installations) :
                        Attempts(i, "FAILED") = 0)

\* C10 witness: the deployment failed, the FAILED event to the first
\* installation was not acknowledged, the second installation still got its
\* FAILED event, and the run has ended with status 1.
C10_Witness ==
    /\ DeployFailed
    /\ pc = "exit"
    /\ exit_code = 1
    /\ Len(installations) >= 2
    /\ Unacknowledged(installations[1], "FAILED")
    /\ Attempts(installations[2], "FAILED") = 1

\* --------------------------------------------------- properties of the exit
\* C11 as stated: a run whose `forge deploy` exited zero ends with status 0.
C11_ExitZeroWhenDeployExitedZero ==
    (pc = "exit" /\ deploy_invoked /\ deployment_succeeded) => exit_code = 0

\* C11: once a SUCCESSFUL event has been POSTed to some installation (the
\* steps between the deployment and the deliveries did not raise), the
\* deployment had succeeded, nothing is raised any more, and the run ends
\* with status 0 whether or not any delivery is acknowledged.
C11_ExitZeroOnceSuccessfulDelivered ==
    (\E i \in 1..site_limit : Attempts(i, "SUCCESSFUL") > 0) =>
        /\ deployment_succeeded
        /\ error_message = None
        /\ pc \in {"send_final_notifications", "exit"}
        /\ (pc = "exit" => exit_code = 0)

\* C11 witness: the run ended with status 0 although no installation of two
\* or more acknowledged its SUCCESSFUL event.
C11_Witness ==
    /\ pc = "exit"
    /\ exit_code = 0
    /\ deploy_invoked
    /\ Len(installations) >= 2
    /\ \A i \in Members(installations) :
          /\ Attempts(i, "SUCCESSFUL") = 1
          /\ Unacknowledged(i, "SUCCESSFUL")

\* C12: a run that is not a dry run ends with status 0 only if the
\* credentials were set, the config was loaded, verification did not fail,
\* every installation of the notification set acknowledged IN_PROGRESS and
\* `forge deploy` was started and exited zero; a run in which the credentials
\* were missing or an exception reached the handler of deploy() (config,
\* verification, IN_PROGRESS delivery, deployment) ends with status 1.
C12_ExitStatusReflectsRun ==
    /\ (pc = "exit" /\ exit_code = 0 /\ ~dry_run) =>
          /\ ATLASSIAN_USER_EMAIL /\ ATLASSIAN_USER_API_KEY
          /\ component_slug # ""
          /\ ~NoneVerified
          /\ in_progress_sent
          /\ \A i \in Members(installations) : AcknowledgedInProgress(i)
          /\ deploy_invoked
          /\ deployment_succeeded
          /\ error_message = None
    /\ (/\ pc = "exit"
        /\ \/ error_message # None
           \/ ~ATLASSIAN_USER_EMAIL
           \/ ~ATLASSIAN_USER_API_KEY) => exit_code = 1

\* C12 witness: a run that is not a dry run ended with status 0 after a
\* partial verification kept two or more installations.
C12_Witness ==
    /\ pc = "exit"
    /\ exit_code = 0
    /\ ~dry_run
    /\ Len(installations) >= 2
    /\ Len(found) > Len(installations)

\* ------------------------------------------------- the end-to-end scenario
\* Every remote call about installation i so far was answered with success.
AllAcknowledged(i) == \A k \in 1..Len(log[i]) : log[i][k].ok

\* The "local" script, not a dry run, with exactly one installation
\* discovered and verified that acknowledged every delivery so far, after
\* `forge deploy` exited zero printing the version [1.2.3].
EndToEndScenario ==
    /\ script = "local"
    /\ ~dry_run
    /\ Len(found) = 1
    /\ installations = found
    /\ AllAcknowledged(found[1])
    /\ deploy_invoked
    /\ deployment_succeeded
    /\ deployed_version = "1.2.3"

\* The calls about an installation in a run that sent IN_PROGRESS and then
\* SUCCESSFUL, both acknowledged, and nothing else.
SuccessfulTimeline ==
    <<[kind |-> "IN_PROGRESS", ok |-> TRUE],
      [kind |-> "SUCCESSFUL", ok |-> TRUE]>>

SequenceNumberOf(p) == p.event.deployment.deploymentProperties.sequenceNumber

\* C14 as stated: no two POSTs to one installation carry the same
\* sequenceNumber.
C14_FreshSequenceNumberPerPost ==
    \A j, k \in 1..Len(watched_payloads) :
        j < k => SequenceNumberOf(watched_payloads[j]) #
                    SequenceNumberOf(watched_payloads[k])

\* C14: two IN_PROGRESS POSTs to one installation (the first attempt and the
\* retry after remediation) carry one and the same payload; in the "local"
\* script this is the only way two POSTs to one installation share a
\* sequenceNumber.
C14_OnlyRetryRepeatsSequenceNumber ==
    \A j, k \in 1..Len(watched_payloads) :
        LET p == watched_payloads[j]
            q == watched_payloads[k]
        IN  j < k =>
              /\ (StateOf(p) = "IN_PROGRESS" /\ StateOf(q) = "IN_PROGRESS")
                    => q = p
              /\ (script = "local" /\ SequenceNumberOf(p) = SequenceNumberOf(q))
                    => (StateOf(p) = "IN_PROGRESS" /\ StateOf(q) = "IN_PROGRESS")

\* C14 witness: in the "local" script the watched installation got its
\* IN_PROGRESS payload twice and then a terminal payload.
C14_Witness ==
    /\ script = "local"
    /\ Len(watched_payloads) = 3
    /\ StateOf(watched_payloads[1]) = "IN_PROGRESS"
    /\ watched_payloads[2] = watched_payloads[1]
    /\ IsTerminal(watched_payloads[3])

\* ------------------------------------------------- the credential check
MissingCredentials == ~ATLASSIAN_USER_EMAIL \/ ~ATLASSIAN_USER_API_KEY

\* C15: when either credential is absent or empty the run never leaves
\* main() except by exiting with status 1: the notifier is not constructed,
\* the config is not read, no CLI command and no HTTP request is issued and
\* the deploy CLI is not started.
C15_NoWorkWithoutCredentials ==
    MissingCredentials =>
        /\ pc \in {"main", "exit"}
        /\ pc = "exit" => exit_code = 1
        /\ environment_type = <<>>
        /\ deployment_run_id = -1
        /\ component_slug = ""
        /\ lookups = {}
        /\ verify_queries = 0
        /\ found = <<>>
        /\ event_state = None
        /\ NothingSent
        /\ watched_payloads = <<>>
        /\ ~deploy_invoked

\* C15 witness: a run without the e-mail credential has exited with status 1.
C15_Witness ==
    /\ ~ATLASSIAN_USER_EMAIL
    /\ ATLASSIAN_USER_API_KEY
    /\ pc = "exit"
    /\ exit_code = 1

\* ------------------------------------------------- the notification set
\* The component lookup for installation i returned an id.
ComponentFound(i) ==
    [endpoint |-> "graphql", inst |-> i, ok |-> TRUE] \in lookups

\* initialize_installations() has returned normally: deploy() has gone on to
\* its first send_deployment_event call.
InitializeReturned == event_state # None

\* C16: once initialize_installations has returned normally the notification
\* set is the list of discovered installations whose component lookup
\* returned an id, in discovery order, and it stays so; no remote call about
\* an event of any state is made for an installation outside it.
C16_NotificationSetIsVerified ==
    /\ InitializeReturned =>
          installations = SelectSeq(found, ComponentFound)
    /\ \A i \in 1..site_limit :
          log[i] # <<>> =>
              /\ InitializeReturned
              /\ i \in Members(installations)
              /\ ComponentFound(i)

\* C16 witness: three installations were discovered, the second could not be
\* verified, and events have gone to the first and the third.
C16_Witness ==
    /\ found = <<1, 2, 3>>
    /\ installations = <<1, 3>>
    /\ log[1] # <<>>
    /\ log[2] = <<>>
    /\ log[3] # <<>>
    /\ pc = "exit"

\* ------------------------------------------------------------ discovery
\* The tenant_info lookup for installation i returned a cloud id.
CloudIdFound(i) ==
    [endpoint |-> "tenant_info", inst |-> i, ok |-> TRUE] \in lookups

\* The tenant_info lookup for installation i failed.
CloudIdFailed(i) ==
    [endpoint |-> "tenant_info", inst |-> i, ok |-> FALSE] \in lookups

\* `forge install list` was run and failed or printed no JSON.
ListingFailed ==
    [endpoint |-> "install_list", inst |-> 0, ok |-> FALSE] \in lookups

\* get_all_installations() has returned a list.
DiscoveryReturned ==
    /\ \E r \in lookups : r.endpoint = "install_list"
    /\ error_message # "KeyError: 'site'"

\* C17: once get_all_installations has returned, the discovered list holds
\* exactly the listed installations whose cloud id lookup succeeded, in
\* order; a failed listing issues no cloud id lookup; and when no lookup
\* succeeded the list is empty, the run reaches the deployment step without
\* raising and no notification is sent.
C17_DiscoveryDegrades ==
    DiscoveryReturned =>
        /\ found = AsList({ i \in 1..site_limit : CloudIdFound(i) })
        /\ \A i \in 1..site_limit : CloudIdFailed(i) => i \notin Members(found)
        /\ ListingFailed =>
              \A i \in 1..site_limit : ~CloudIdFound(i) /\ ~CloudIdFailed(i)
        /\ (\A i \in 1..site_limit : ~CloudIdFound(i)) =>
              /\ found = <<>>
              /\ installations = <<>>
              /\ verify_queries = 0
              /\ NothingSent
              /\ ~in_progress_sent =>
                    /\ error_message = None
                    /\ pc = "send_deployment_event"

\* C17 witness: of three listed installations the second one's cloud id
\* lookup failed; the other two were kept and the deployment was started.
C17_Witness ==
    /\ CloudIdFound(1) /\ CloudIdFailed(2) /\ CloudIdFound(3)
    /\ found = <<1, 3>>
    /\ deploy_invoked

\* ---------------------------------------------------- the terminal phase
TerminalStates == {"SUCCESSFUL", "FAILED"}

\* send_final_notifications(state, ...) was entered and made a POST.
TerminalPhaseRan(state) ==
    /\ in_progress_sent
    /\ \E i \in 1..site_limit : Attempts(i, state) > 0

\* C18: while send_final_notifications runs, every installation before the
\* current one has had exactly one attempt of the terminal event, whether
\* acknowledged or not, and nothing has been raised by the phase; and once
\* the process has exited after a terminal phase, every installation of the
\* notification set has had its one attempt, and a SUCCESSFUL phase has
\* left the status at 0.
C18_TerminalPhaseIsBestEffort ==
    /\ pc = "send_final_notifications" =>
          /\ event_state \in TerminalStates
          /\ \A k \in 1..Len(installations) :
                Attempts(installations[k], event_state) =
                    IF k < idx THEN 1 ELSE 0
    /\ \A state \in TerminalStates :
          (pc = "exit" /\ TerminalPhaseRan(state)) =>
              /\ \A i \in Members(installations) : Attempts(i, state) = 1
              /\ state = "SUCCESSFUL" =>
                    exit_code = 0 /\ error_message = None

\* C18 witness: the run has exited; the SUCCESSFUL delivery to the first
\* installation was not acknowledged and the one to the second was made and
\* acknowledged.
C18_Witness ==
    /\ pc = "exit"
    /\ Len(installations) >= 2
    /\ Unacknowledged(installations[1], "SUCCESSFUL")
    /\ Attempts(installations[2], "SUCCESSFUL") = 1
    /\ ~Unacknowledged(installations[2], "SUCCESSFUL")

\* ------------------------------------------- the environment type mapping
\* Two strings are the same when case is ignored.
EqualIgnoringCase(s, t) ==
    /\ Len(s) = Len(t)
    /\ \A k \in 1..Len(s) : LowerChar(s[k]) = LowerChar(t[k])

HttpLookups ==
    { r \in lookups : r.endpoint \in {"tenant_info", "graphql"} }

\* C20: in a dry run the deploy CLI is never started and no HTTP request is
\* sent to any remote endpoint: no event or remediation call, no cloud id
\* lookup and no component lookup.
C20_DryRunMakesNoCalls ==
    dry_run =>
        /\ ~deploy_invoked
        /\ NothingSent
        /\ watched_payloads = <<>>
        /\ HttpLookups = {}

\* ------------------------------------- remediation in the IN_PROGRESS phase
Remediations == {"createEventSource", "attachEventSource"}

\* Entry k of the calls about installation i is a remediation step that
\* failed or a retry that was not acknowledged.
HardFailureAt(i, k) ==
    /\ ~log[i][k].ok
    /\ \/ log[i][k].kind \in Remediations
       \/ log[i][k].kind = "IN_PROGRESS" /\ k > 1

\* C21: for each installation there are at most two IN_PROGRESS POSTs and at
\* most one create and one attach call; the create call is made only right
\* after a first answer of 404 CREATE_EVENT_SOURCE_NOT_FOUND, the attach call
\* only right after a successful create, the second POST only right after a
\* successful attach; and a failed create or attach or an unacknowledged
\* retry is the last call made about that installation, the deploy CLI is
\* not started and the process exits with status 1.
C21_OneRemediationOneRetry ==
    \A i \in 1..site_limit :
        /\ Attempts(i, "IN_PROGRESS") <= 2
        /\ Attempts(i, "createEventSource") <= 1
        /\ Attempts(i, "attachEventSource") <= 1
        /\ \A k \in 1..Len(log[i]) :
              /\ log[i][k].kind = "IN_PROGRESS" => k \in {1, 4}
              /\ log[i][k].kind = "createEventSource" =>
                    /\ k = 2
                    /\ i \in event_source_missing
                    /\ log[i][1] = [kind |-> "IN_PROGRESS", ok |-> FALSE]
              /\ log[i][k].kind = "attachEventSource" =>
                    /\ k = 3
                    /\ log[i][2] = [kind |-> "createEventSource", ok |-> TRUE]
              /\ (log[i][k].kind = "IN_PROGRESS" /\ k = 4) =>
                    log[i][3] = [kind |-> "attachEventSource", ok |-> TRUE]
              /\ HardFailureAt(i, k) =>
                    /\ k = Len(log[i])
                    /\ ~deploy_invoked
                    /\ pc = "exit" => exit_code = 1

\* C21 witness: the run has exited; the first installation was delivered to
\* at the retry after a remediation, and the remediation for the second
\* failed at the attach step.
C21_Witness ==
    /\ pc = "exit"
    /\ Len(installations) >= 2
    /\ log[installations[1]] =
          <<[kind |-> "IN_PROGRESS", ok |-> FALSE],
            [kind |-> "createEventSource", ok |-> TRUE],
            [kind |-> "attachEventSource", ok |-> TRUE],
            [kind |-> "IN_PROGRESS", ok |-> TRUE]>>
    /\ log[installations[2]] =
          <<[kind |-> "IN_PROGRESS", ok |-> FALSE],
            [kind |-> "createEventSource", ok |-> TRUE],
            [kind |-> "attachEventSource", ok |-> FALSE]>>

\* --------------------------------- sequence numbers in the "forge" script
\* C22: in the "forge" script every SUCCESSFUL or FAILED payload POSTed to an
\* installation carries a sequenceNumber strictly greater than that of the
\* IN_PROGRESS payload POSTed to it before, whatever the clock read when the
\* two payloads were built.
C22_ForgeSequenceNumbersIncrease ==
    script = "forge" =>
        \A j, k \in 1..Len(watched_payloads) :
            (/\ j < k
             /\ StateOf(watched_payloads[j]) = "IN_PROGRESS"
             /\ IsTerminal(watched_payloads[k]))
            => SequenceNumberOf(watched_payloads[k]) >
                   SequenceNumberOf(watched_payloads[j])

\* --------------------------------------- terminal events for acknowledgers
\* A SUCCESSFUL or FAILED delivery to installation i was attempted.
TerminalAttempted(i) ==
    Attempts(i, "SUCCESSFUL") + Attempts(i, "FAILED") > 0

\* C23: when a non-dry run has exited, every installation that acknowledged
\* an IN_PROGRESS event has had a SUCCESSFUL or FAILED delivery attempted.
C23_AcknowledgedGetsTerminalAttempt ==
    (pc = "exit" /\ ~dry_run) =>
        \A i \in 1..site_limit :
            AcknowledgedInProgress(i) => TerminalAttempted(i)

\* ------------------------------------------------- the SQL migration step
\* run_sql_migrate got as far as looking for a matching installation.
MigrationRan == migration # NoMigration

\* The outcomes that fail the run: no installation's forge environment
\* equals the deployment environment when case is ignored, or the trigger
\* answered 200/202 with JSON reporting success false, a status other than
\* SUCCESS or pending migrations above zero.
MigrationMustFail ==
    \/ \A e \in migration.envs : ~EqualIgnoringCase(e, environment)
    \/ /\ migration.response.kind = "json"
       /\ \/ ~migration.response.success
          \/ migration.response.status # "SUCCESS"
          \/ migration.response.pending > 0

\* C24: the migration step runs only in a non-dry run of the "local" script
\* after a successful deploy with a non-empty notification set; when its
\* outcome is one that must fail, an exception is raised, the SUCCESSFUL step
\* is not reached, the handler calls send_deployment_event('FAILED') and the
\* process exits with status 1; in every other outcome the run goes on to
\* send_deployment_event('SUCCESSFUL').
C24_MigrationFailsRunExactlyWhen ==
    MigrationRan =>
        /\ script = "local" /\ ~dry_run /\ installations # <<>>
        /\ deploy_invoked /\ deployment_succeeded
        /\ IF MigrationMustFail
           THEN /\ error_message # None
                /\ ~successful_begun
                /\ \A i \in 1..site_limit : Attempts(i, "SUCCESSFUL") = 0
                /\ pc \in {"except", "send_deployment_event",
                            "send_final_notifications", "exit"}
                /\ pc # "except" => event_state = "FAILED"
                /\ pc = "exit" => exit_code = 1
           ELSE successful_begun

\* C24 witness: the trigger reported one pending migration; the run sent
\* FAILED to its installation and exited with status 1.
C24_Witness ==
    /\ migration.response = [kind |-> "json", success |-> TRUE,
                             status |-> "SUCCESS", pending |-> 1]
    /\ pc = "exit"
    /\ exit_code = 1
    /\ \E i \in 1..site_limit : Attempts(i, "FAILED") = 1

\* ------------------------------------------- one terminal event at most
\* C25: every installation has had at most one SUCCESSFUL or FAILED delivery
\* attempted (terminal or compensating), so none has got both a SUCCESSFUL
\* and a FAILED event and none has got FAILED twice.
C25_AtMostOneTerminalDelivery ==
    \A i \in 1..site_limit :
        Attempts(i, "SUCCESSFUL") + Attempts(i, "FAILED") <= 1

\* C25 witness: the IN_PROGRESS phase was aborted after a compensating FAILED
\* event was sent to an installation, and the process has exited.
C25_Witness ==
    /\ pc = "exit"
    /\ ~in_progress_sent
    /\ error_message = "Deployment aborted: Failed to send notifications"
    /\ \E i \in 1..site_limit : Attempts(i, "FAILED") = 1

\* ------------------------------------ terminal events only after an ack
\* Entry k of the calls about installation i is a SUCCESSFUL or FAILED
\* delivery.
TerminalAt(i, k) == log[i][k].kind \in TerminalStates

\* C26: every SUCCESSFUL or FAILED delivery to an installation comes after
\* an acknowledged IN_PROGRESS delivery to it; a SUCCESSFUL delivery, and a
\* FAILED delivery made by the handler of deploy(), is made only after the
\* whole IN_PROGRESS phase returned normally, when every installation of the
\* notification set has acknowledged.
C26_TerminalOnlyAfterAcknowledgement ==
    \A i \in 1..site_limit :
        \A k \in 1..Len(log[i]) :
            TerminalAt(i, k) =>
                /\ \E j \in 1..(k - 1) :
                      log[i][j] = [kind |-> "IN_PROGRESS", ok |-> TRUE]
                /\ (log[i][k].kind = "SUCCESSFUL" \/ event_state = "FAILED") =>
                      /\ in_progress_sent
                      /\ \A n \in Members(installations) :
                            AcknowledgedInProgress(n)

\* C26 witness: an installation acknowledged IN_PROGRESS at the retry after
\* a remediation and was then sent the SUCCESSFUL event.
C26_Witness ==
    \E i \in 1..site_limit :
        /\ Len(log[i]) = 5
        /\ log[i][4] = [kind |-> "IN_PROGRESS", ok |-> TRUE]
        /\ log[i][5].kind = "SUCCESSFUL"


\* ---------------------------------------------- file-sync tool: properties
\* Some entry of FILES_TO_COPY was missing from the current directory when
\* the run began.
MissingSourceFile ==
    \E f \in Items : ~Exists(tree0[CurrentDirName].items[f])

\* C27: in copy-files-to-siblings.py, when an entry of FILES_TO_COPY is
\* missing from the current directory the run ends with status 1 in
\* verify_source_files: no sibling was enumerated, no prompt was shown, no
\* copy was made and the parent directory is as the run found it.
C27_MissingSourceFileAbortsBeforeAnything ==
    (sync_script = "to-siblings" /\ MissingSourceFile /\ trail # <<>>) =>
        /\ sync_pc = "exit"
        /\ sync_exit = 1
        /\ trail = <<"verify_source_files">>
        /\ attempts = <<>>
        /\ tree = tree0

C27_Witness ==
    /\ sync_script = "to-siblings"
    /\ MissingSourceFile
    /\ \E f \in Items : Exists(tree0[CurrentDirName].items[f])
    /\ SiblingDirectories(tree0, CurrentDirName) # {}
    /\ sync_pc = "exit"
    /\ sync_exit = 1


\* The entries of FILES_TO_COPY that were in the source directory when the
\* run began.
PresentInSource ==
    { f \in Items : Exists(tree0[Resolve(SourceDir)].items[f]) }

\* The copy operations that returned True.
Succeeded == { k \in 1..Len(attempts) : attempts[k].ok }

\* C28: in copy-files-between-siblings.py the items worked through are
\* exactly the entries of FILES_TO_COPY present in the source, in list
\* order; the count kept equals the number of copy operations that returned
\* True; a run that began copying ends with its report; and at the report
\* one copy has been attempted for every target directory and every existing
\* item, in loop order, whatever the earlier copies returned, so that the
\* reported count is at most items times directories.
C28_EveryExistingItemAttemptedAndCounted ==
    sync_script = "between-siblings" =>
        /\ copied_count = Cardinality(Succeeded)
        /\ (sync_pc = "exit" /\ attempts # <<>>) => reported # -1
        /\ sync_pc \in {"copy", "completed"} \/ reported # -1 =>
              /\ Members(existing_files) = PresentInSource
              /\ Len(existing_files) = Cardinality(PresentInSource)
              /\ \A i, j \in 1..Len(existing_files) :
                    i < j => \E a, b \in 1..Len(FILES_TO_COPY) :
                               /\ a < b
                               /\ FILES_TO_COPY[a] = existing_files[i]
                               /\ FILES_TO_COPY[b] = existing_files[j]
        /\ reported # -1 =>
              /\ Len(attempts) = Len(Targets) * Len(existing_files)
              /\ \A d \in 1..Len(Targets) :
                    \A i \in 1..Len(existing_files) :
                      LET a == attempts[(d - 1) * Len(existing_files) + i]
                      IN  a.dir = Targets[d] /\ a.item = existing_files[i]
              /\ reported = Cardinality(Succeeded)
              /\ reported <= Len(existing_files) * Len(Targets)

C28_Witness ==
    /\ sync_script = "between-siblings"
    /\ direction = "to"
    /\ reported = 1
    /\ Len(existing_files) < Len(FILES_TO_COPY)
    /\ Len(selected_directories) = 2
    /\ Len(attempts) = 2
    /\ ~attempts[1].ok
    /\ attempts[2].ok


\* C29: copy_directory_to_directory is a clean replacement: a call that
\* returned True left the target equal to the source tree, and a call that
\* returned False left a target directory that existed before the call as
\* it was.
C29_CleanReplacementOrUntouched ==
    \A k \in 1..Len(attempts) :
        attempts[k].as_dir =>
            /\ attempts[k].ok => attempts[k].after = attempts[k].source
            /\ (~attempts[k].ok /\ IsDir(attempts[k].before)) =>
                   attempts[k].after = attempts[k].before


\* C30: the tool never writes to or deletes from its source.  The candidate
\* list never holds the current directory.  In the 'to' direction every copy
\* goes to a selected sibling, and the current directory and the entries not
\* selected are as the run found them; in the 'from' direction every copy
\* goes to the current directory and every other entry of the parent is as
\* the run found it.
C30_SourceNeverWritten ==
    sync_script \in SyncScripts =>
        /\ DOMAIN tree = DOMAIN tree0
        /\ \A k \in 1..Len(directories) : directories[k] # CurrentDirName
        /\ \A k \in 1..Len(attempts) : attempts[k].dir # SourceDir
        /\ direction # "from" =>
              /\ \A k \in 1..Len(attempts) :
                    /\ attempts[k].dir \in Members(selected_directories)
                    /\ attempts[k].dir \in Members(directories)
              /\ tree[CurrentDirName] = tree0[CurrentDirName]
              /\ \A n \in DOMAIN tree :
                    n \notin Members(selected_directories) =>
                        tree[n] = tree0[n]
        /\ direction = "from" =>
              /\ \A k \in 1..Len(attempts) :
                    attempts[k].dir = CurrentDirName
              /\ \A n \in DOMAIN tree \ {CurrentDirName} :
                    tree[n] = tree0[n]

====
